---- MODULE Spec2Model ----
(***************************************************************************)
(* GHIPredictionModel (src/main.py): the sequential splitter, the interval *)
(* calibration engine (calibrate_prediction_intervals and                  *)
(* optimize_interval_width) and the prediction-time adjuster (predict,     *)
(* predict_future_hours), with the evaluation methods that apply the       *)
(* calibrated offsets.                                                     *)
(*                                                                         *)
(* Numbers.  The program computes in binary floating point.  The model     *)
(* computes the same expressions in exact rational arithmetic: a number is *)
(* a pair <<n, d>> with d > 0 in lowest terms.  Irradiance values, point   *)
(* predictions and widths handed in are whole W/m^2.  Rounding errors of   *)
(* the order of 1e-14 W/m^2 are therefore not in the model.                *)
(*                                                                         *)
(* Regressors.  A fitted gradient-boosted regressor is a black box         *)
(* fit(X, y) -> predict(X): here it is the table of its outputs over the   *)
(* feature vectors tried, which are numbered 1..4.                         *)
(*                                                                         *)
(* Intervals.  An interval is what the calibration offsets                 *)
(* (error_percentiles) give.  The legacy quantile regressors               *)
(* (models_lower, models_upper), used only for a horizon that has no       *)
(* offsets, are left out: such a horizon has no interval here.             *)
(***************************************************************************)
EXTENDS Integers, Sequences, FiniteSets, TLC

VARIABLES
    feature_columns,      \* self.feature_columns: None until fitted or loaded
    models_median,        \* self.models_median: horizon -> fitted regressor
    error_percentiles,    \* self.error_percentiles: horizon -> <<lower, upper>>
    interval_widths,      \* self.interval_widths: horizon -> mean width
    max_interval_widths,  \* self.max_interval_widths: horizon -> max width
    pc,                   \* "idle": no call running; "returned": a call has returned
    op,                   \* the method that ran last
    args,                 \* its arguments
    out,                  \* what it returned (or the error it raised)
    earlier               \* an earlier call of predict: what it read and returned

vars == <<feature_columns, models_median, error_percentiles, interval_widths,
          max_interval_widths, pc, op, args, out, earlier>>

None == "None"

\* self.forecast_horizons
forecast_horizons == <<1, 2, 3, 4>>

Horizons == {forecast_horizons[i] : i \in 1..Len(forecast_horizons)}

-----------------------------------------------------------------------------
(* Exact arithmetic standing for the float expressions of the source.      *)

RECURSIVE Gcd(_, _)
Gcd(a, b) == IF b = 0 THEN a ELSE Gcd(b, a % b)

Abs(x) == IF x < 0 THEN -x ELSE x

\* n/d in lowest terms with a positive denominator
Q(n, d) ==
    LET s == IF d < 0 THEN -1 ELSE 1
        g == Gcd(Abs(n), Abs(d))
    IN  <<(s * n) \div g, (s * d) \div g>>

QInt(n) == <<n, 1>>
QNeg(a) == <<-a[1], a[2]>>
\* the sum over the least common denominator
QAdd(a, b) ==
    LET g == Gcd(a[2], b[2])
    IN  Q(a[1] * (b[2] \div g) + b[1] * (a[2] \div g), (a[2] \div g) * b[2])
QSub(a, b) == QAdd(a, QNeg(b))
\* the product, common factors cancelled before multiplying
QMul(a, b) ==
    LET g1 == Gcd(Abs(a[1]), b[2])
        g2 == Gcd(Abs(b[1]), a[2])
    IN  IF a[1] = 0 \/ b[1] = 0 THEN <<0, 1>>
        ELSE <<(a[1] \div g1) * (b[1] \div g2), (a[2] \div g2) * (b[2] \div g1)>>
QDiv(a, b) == QMul(a, IF b[1] < 0 THEN <<-b[2], -b[1]>> ELSE <<b[2], b[1]>>)
QLe(a, b) == a[1] * b[2] <= b[1] * a[2]
QLt(a, b) == a[1] * b[2] < b[1] * a[2]
QMax(a, b) == IF QLe(a, b) THEN b ELSE a
QZero == <<0, 1>>

\* the empty dict
EmptyMap == [h \in {} |-> 0]

-----------------------------------------------------------------------------
(* Interval calibration engine: optimize_interval_width                    *)

Lcm(a, b) == (a \div Gcd(a, b)) * b

Indices(s) == 1..Len(s)

\* name = value; rest(name): the value of an assignment is computed once
With(value, rest(_)) == CHOOSE result \in {rest(name) : name \in {value}} : TRUE

RECURSIVE SumBetween(_, _, _)
\* f[lo] + ... + f[hi], by halves
SumBetween(f, lo, hi) ==
    IF lo > hi THEN 0
    ELSE IF lo = hi THEN f[lo]
    ELSE SumBetween(f, lo, (lo + hi) \div 2) + SumBetween(f, ((lo + hi) \div 2) + 1, hi)

\* f[1] + ... + f[k]
SumTo(f, k) == SumBetween(f, 1, k)

\* peak_solar_times = (hour_of_day >= 11) & (hour_of_day <= 13); empty when
\* no timestamps were given
PeakSolarTimes(hours) == {i \in Indices(hours) : hours[i] >= 11 /\ hours[i] <= 13}

\* The bounds of evaluate_percentiles for the offsets L/D and U/D, as
\* numerators over the common denominator D:
\*   lower_bounds = np.maximum(0, median_preds + lower_p)
\*   upper_bounds = np.maximum(lower_bounds, median_preds + upper_p)
LowerBoundNum(p, D, L) == IF p * D + L < 0 THEN 0 ELSE p * D + L
UpperBoundNum(p, D, L, U) ==
    IF p * D + U < LowerBoundNum(p, D, L) THEN LowerBoundNum(p, D, L) ELSE p * D + U

\* evaluate_percentiles(lower_p, upper_p) with lower_p = L/D, upper_p = U/D:
\* the number of covered rows and the sum of the widths (over D), and the
\* sum of the widths of the peak rows (time_metrics['peak_width'] is their
\* mean).  max_actual_width and peak_coverage are only logged.
EvaluateNum(median_preds, actual, peak, D, L, U) ==
    LET n == Len(median_preds)
        lb(i) == LowerBoundNum(median_preds[i], D, L)
        ub(i) == UpperBoundNum(median_preds[i], D, L, U)
    IN  With([i \in 1..n |-> ub(i) - lb(i)],
             LAMBDA w :
                [n |-> n,
                 D |-> D,
                 covered |-> Cardinality({i \in 1..n : /\ actual[i] * D >= lb(i)
                                                       /\ actual[i] * D <= ub(i)}),
                 wsum |-> SumTo(w, n),
                 pn |-> Cardinality(peak),
                 pwsum |-> SumTo([i \in 1..n |-> IF i \in peak THEN w[i] ELSE 0], n)])

evaluate_percentiles(median_preds, actual, peak, lower_p, upper_p) ==
    LET D == Lcm(lower_p[2], upper_p[2])
    IN  EvaluateNum(median_preds, actual, peak, D,
                    lower_p[1] * (D \div lower_p[2]),
                    upper_p[1] * (D \div upper_p[2]))

\* coverage = np.mean(...), avg_width = np.mean(upper_bounds - lower_bounds)
Coverage(m) == Q(m.covered, m.n)
AvgWidth(m) == Q(m.wsum, m.n * m.D)
\* time_metrics['peak_width']
PeakWidth(m) == Q(m.pwsum, m.pn * m.D)

\* avg_width <= max_width
WidthWithin(m, max_width) == m.wsum <= max_width * m.n * m.D
\* time_metrics.get('peak_width', 0) > max_width
PeakWidthExceeds(m, max_width) == m.pwsum > max_width * m.pn * m.D

\* lower_bounds / upper_bounds of evaluate_percentiles, row by row
LowerBounds(median_preds, lower_p, upper_p) ==
    [i \in Indices(median_preds) |-> QMax(QZero, QAdd(QInt(median_preds[i]), lower_p))]
UpperBounds(median_preds, lower_p, upper_p) ==
    [i \in Indices(median_preds) |->
        QMax(LowerBounds(median_preds, lower_p, upper_p)[i],
             QAdd(QInt(median_preds[i]), upper_p))]

\* min(max(skew(peak_errors) * 0.1, -0.3), 0.3) for the peak rows' errors e.
\* scipy's skew is m3 / m2^1.5 (biased moments), an irrational number in
\* general: the model keeps its sign and its size to two decimals (rounded
\* toward 0).  With d[i] = (n * e[i] - sum(e)) / g for any common divisor g,
\* skew^2 = n * (sum d^3)^2 / (sum d^2)^3, so the size in hundredths is the
\* integer square root of floor(100 * n * s3^2 / s2^3).  For fewer than 3
\* peak rows the source takes 0.  For constant errors (m2 = 0) scipy returns
\* 0 or nan, depending on its version: const_skew says which.
SkewFactor(e, const_skew) ==
    LET n == Len(e)
        tot == SumTo(e, n)
        raw == [i \in 1..n |-> n * e[i] - tot]
        RECURSIVE GcdAll(_)
        GcdAll(k) == IF k = 0 THEN 0 ELSE Gcd(Abs(raw[k]), GcdAll(k - 1))
        g == GcdAll(n)
        d == [i \in 1..n |-> raw[i] \div g]
        s2 == SumTo([i \in 1..n |-> d[i] * d[i]], n)
        s3 == SumTo([i \in 1..n |-> d[i] * d[i] * d[i]], n)
        sq == (100 * n * s3 * s3) \div (s2 * s2 * s2)
        k == CHOOSE x \in 0..30 : x * x <= sq /\ (x = 30 \/ (x + 1) * (x + 1) > sq)
    IN  IF n <= 2 THEN [nan |-> FALSE, value |-> QZero]
        ELSE IF g = 0 THEN [nan |-> const_skew = "nan", value |-> QZero]
        ELSE [nan |-> FALSE, value |-> Q(IF s3 < 0 THEN -k ELSE k, 100)]

\* the shrink branch: the new <<lower_percentile, upper_percentile>>
\*   scale_factor = max_width / avg_width
\*   width_range = upper_percentile - lower_percentile
\*   adjustment = (1 - scale_factor) * 0.5
\*   lower_adj = adjustment * (1 + skew_factor)
\*   upper_adj = adjustment * (1 - skew_factor)
\* (skew_factor = 0 in the symmetric branches)
Shrink(lower, upper, avg_width, max_width, skew_factor) ==
    LET scale_factor == QDiv(QInt(max_width), avg_width)
        width_range == QSub(upper, lower)
        adjustment == QMul(QSub(QInt(1), scale_factor), <<1, 2>>)
        lower_adj == QMul(adjustment, QAdd(QInt(1), skew_factor))
        upper_adj == QMul(adjustment, QSub(QInt(1), skew_factor))
    IN  <<QAdd(lower, QMul(width_range, lower_adj)),
          QSub(upper, QMul(width_range, upper_adj))>>

\* a candidate that replaces the best one whenever it covers more rows
CandidateAcceptedAtAnyWidth(c, cand, covered) == cand.covered > covered

\* "If width is within limit and coverage is better, update best", with the
\* additional check for peak solar times
CandidateAccepted(c, cand, covered) ==
    /\ WidthWithin(cand, c.max_width)
    /\ cand.covered > covered
    /\ ~(c.have_peak_data /\ PeakWidthExceeds(cand, c.max_width))

\* The expand branch: the grid of np.linspace(0, 5, 10) x np.linspace(0, 5, 10)
\* (step a stands for the adjustment 5a/9), scanned lower_adj outermost; a
\* candidate replaces the best one when its mean width is within max_width,
\* its coverage is strictly higher and, with peak data, its peak width is
\* within max_width.  A candidate whose evaluation raises is skipped
\* (except Exception: continue).  The result is best_candidate_coverage and
\* best_candidate_adjustment, in steps, with the number of candidates that
\* were evaluated and that raised.
BestCandidateAdjustment(c, lower, upper, covered, iteration) ==
    LET D == 9 * Lcm(lower[2], upper[2])
        L0 == lower[1] * (D \div lower[2])
        U0 == upper[1] * (D \div upper[2])
        step == 5 * (D \div 9)
        \* one candidate against the best so far
        try(prev, a, b) ==
            IF <<iteration, a, b>> \in c.raises.candidates
            THEN [prev EXCEPT !.raised = @ + 1]
            ELSE
            With(EvaluateNum(c.median_preds, c.actual, c.peak, D,
                             L0 - a * step, U0 + b * step),
                 LAMBDA cand :
                    IF CandidateAccepted(c, cand, prev.covered)
                    THEN [prev EXCEPT !.covered = cand.covered, !.adj = <<a, b>>,
                                      !.evaluated = @ + 1]
                    ELSE [prev EXCEPT !.evaluated = @ + 1])
        \* for upper_adj in upper_adjustments
        RECURSIVE inner(_, _, _)
        inner(prev, a, b) ==
            IF b = 10 THEN prev
            ELSE With(try(prev, a, b), LAMBDA next : inner(next, a, b + 1))
        \* for lower_adj in lower_adjustments
        RECURSIVE outer(_, _)
        outer(prev, a) ==
            IF a = 10 THEN prev
            ELSE With(inner(prev, a, 0), LAMBDA next : outer(next, a + 1))
    IN  outer([covered |-> covered, adj |-> <<0, 0>>, evaluated |-> 0, raised |-> 0], 0)

\* the shrink branch scans no candidates
NoCandidates == [covered |-> 0, adj |-> <<0, 0>>, evaluated |-> 0, raised |-> 0]

\* the step 5a/9 of np.linspace(0, 5, 10)
GridStep(a) == Q(5 * a, 9)

\* an acceptance that stops once the best coverage has reached the target
AcceptsUpToTarget(c, m, best_covered) ==
    /\ WidthWithin(m, c.max_width)
    /\ m.covered > best_covered
    /\ ~(c.have_peak_data /\ PeakWidthExceeds(m, c.max_width))
    /\ 100 * best_covered < c.target_coverage * m.n

\* "Update best if this is better": avg_width <= max_width and
\* coverage > best_coverage and, with peak data, peak width <= max_width
AcceptsAsBest(c, m, best_covered) ==
    /\ WidthWithin(m, c.max_width)
    /\ m.covered > best_covered
    /\ ~(c.have_peak_data /\ PeakWidthExceeds(m, c.max_width))

\* abs(avg_width - max_width) < 0.5
WidthConverged(m, max_width) ==
    LET diff == m.wsum - max_width * m.n * m.D
    IN  2 * Abs(diff) < m.n * m.D

\* an expand branch that moves the offsets by twice the best adjustment
ExpandTwice(s, found) ==
    <<QSub(s.lower, GridStep(2 * found.adj[1])), QAdd(s.upper, GridStep(2 * found.adj[2]))>>

\* the expand branch: the offsets moved by the best candidate adjustment
Expand(s, found) ==
    <<QSub(s.lower, GridStep(found.adj[1])), QAdd(s.upper, GridStep(found.adj[2]))>>

\* One pass of the loop as the search went through it: the branch taken,
\* the offsets, the metrics (coverage, avg_width, time_metrics) and the best
\* offsets the pass started from, the adjustment of the expand branch, the
\* offsets it moved to, whether their re-evaluation succeeded, the metrics
\* and the best offsets it left, and whether it ended the loop
Pass(s, shrink, is_nan, new, found, evaluated, m, best, best_covered, converged) ==
    [iteration |-> s.iterations,
     shrink |-> shrink,
     nan |-> is_nan,
     before |-> <<s.lower, s.upper>>,
     m_before |-> s.m,
     best_before |-> <<s.best_lower, s.best_upper>>,
     best_covered_before |-> s.best_covered,
     adjustment |-> found.adj,
     after |-> new,
     evaluated |-> evaluated,
     m_after |-> m,
     best_after |-> best,
     best_covered_after |-> best_covered,
     converged |-> converged]

\* what a pass in which an evaluation raised leaves behind: how many
\* candidates raised and were evaluated, whether the re-evaluation raised,
\* and the best offsets before and after the pass
PassLog(s, found, reeval_raised, best_after) ==
    IF found.raised = 0 /\ ~reeval_raised THEN s.log
    ELSE Append(s.log, [iteration |-> s.iterations,
                        candidates_raised |-> found.raised,
                        candidates_evaluated |-> found.evaluated,
                        reeval_raised |-> reeval_raised,
                        adjustment |-> found.adj,
                        best_before |-> <<s.best_lower, s.best_upper>>,
                        best_after |-> best_after])

\* the end of a pass: the iterate at the offsets new, evaluated as m, with
\* the best offsets updated if it is accepted
Reevaluated(c, s, shrink, new, m, found) ==
    LET better == AcceptsAsBest(c, m, s.best_covered)
        best == IF better THEN new ELSE <<s.best_lower, s.best_upper>>
    IN  [lower |-> new[1], upper |-> new[2], nan |-> FALSE, m |-> m,
         best_covered |-> IF better THEN m.covered ELSE s.best_covered,
         best_lower |-> best[1],
         best_upper |-> best[2],
         accepted |-> s.accepted \/ better,
         iterations |-> s.iterations + 1,
         shrinks |-> s.shrinks + (IF shrink THEN 1 ELSE 0),
         converged |-> s.iterations > 3 /\ WidthConverged(m, c.max_width),
         log |-> PassLog(s, found, FALSE, best),
         shrunk |-> s.shrunk,
         trace |-> Append(s.trace,
                          Pass(s, shrink, FALSE, new, found, TRUE, m, best,
                               IF better THEN m.covered ELSE s.best_covered,
                               s.iterations > 3 /\ WidthConverged(m, c.max_width)))]

\* a handler that took the offsets of the failed pass as the best ones
ReevaluationRaisedTakesOffsets(s, shrink, new, found) ==
    [s EXCEPT !.lower = new[1], !.upper = new[2],
              !.best_lower = new[1], !.best_upper = new[2],
              !.iterations = @ + 1,
              !.shrinks = @ + (IF shrink THEN 1 ELSE 0),
              !.converged = FALSE,
              !.log = PassLog(s, found, TRUE, new),
              !.trace = Append(@, Pass(s, shrink, FALSE, new, found, FALSE, s.m, new,
                                       s.best_covered, FALSE))]

\* the end of a pass whose re-evaluation raised (except Exception:
\* continue): the offsets have moved, coverage, avg_width and time_metrics
\* keep the values of the last evaluation that succeeded, the best offsets
\* are not touched and the convergence check is not reached
ReevaluationRaised(s, shrink, new, found) ==
    [s EXCEPT !.lower = new[1], !.upper = new[2],
              !.iterations = @ + 1,
              !.shrinks = @ + (IF shrink THEN 1 ELSE 0),
              !.converged = FALSE,
              !.log = PassLog(s, found, TRUE, <<s.best_lower, s.best_upper>>),
              !.trace = Append(@, Pass(s, shrink, FALSE, new, found, FALSE, s.m,
                                       <<s.best_lower, s.best_upper>>, s.best_covered,
                                       FALSE))]

\* what a pass through the shrink branch did: the offsets and the mean width
\* it started from, the branch taken, its skew_factor (nan: the offsets
\* have become nan, after is not a pair of numbers) and the new offsets
Shrunk(s, asym, sk, new) ==
    [s EXCEPT !.shrunk = Append(@, [iteration |-> s.iterations,
                                    asymmetric |-> asym,
                                    nan |-> sk.nan,
                                    skew_factor |-> sk.value,
                                    before |-> <<s.lower, s.upper>>,
                                    avg_width |-> AvgWidth(s.m),
                                    after |-> new])]

\* a pass that makes the offsets nan, or finds them nan: the metrics of
\* nan offsets compare False with everything, the best offsets stay
NanPass(c, s, shrink) ==
    Pass(s, shrink, TRUE, <<s.lower, s.upper>>, NoCandidates,
         s.iterations \notin c.raises.reevals, s.m, <<s.best_lower, s.best_upper>>,
         s.best_covered, FALSE)

\* One pass of the optimization loop over the iterate s.  Once the offsets
\* are nan (a nan skew), every comparison of the pass is False: nothing is
\* accepted and nothing changes.
Iteration(c, s) ==
    IF s.nan
    THEN [s EXCEPT !.iterations = @ + 1,   \* has converged = FALSE
                   !.log = PassLog(s, NoCandidates, s.iterations \in c.raises.reevals,
                                   <<s.best_lower, s.best_upper>>),
                   !.trace = Append(@, NanPass(c, s, FALSE))]
    ELSE
    LET shrink == ~WidthWithin(s.m, c.max_width)
        asym == c.have_peak_data /\ PeakWidthExceeds(s.m, c.max_width)
        sk == IF asym THEN SkewFactor(c.peak_errors, c.const_skew)
              ELSE [nan |-> FALSE, value |-> QZero]
    IN  IF shrink /\ sk.nan
        THEN [Shrunk(s, asym, sk, <<s.lower, s.upper>>)
                 EXCEPT !.nan = TRUE, !.iterations = @ + 1,
                        !.shrinks = @ + 1,
                        !.log = PassLog(s, NoCandidates, s.iterations \in c.raises.reevals,
                                        <<s.best_lower, s.best_upper>>),
                        !.trace = Append(@, NanPass(c, s, TRUE))]
        ELSE With(IF shrink THEN NoCandidates
                  ELSE BestCandidateAdjustment(c, s.lower, s.upper, s.m.covered,
                                               s.iterations),
                  LAMBDA found :
        With(IF shrink
             THEN Shrink(s.lower, s.upper, AvgWidth(s.m), c.max_width, sk.value)
             ELSE Expand(s, found),
             LAMBDA new :
           With(IF shrink THEN Shrunk(s, asym, sk, new) ELSE s,
                LAMBDA moved :
                IF s.iterations \in c.raises.reevals
                THEN ReevaluationRaised(moved, shrink, new, found)
                ELSE With(evaluate_percentiles(c.median_preds, c.actual, c.peak,
                                               new[1], new[2]),
                          LAMBDA m : Reevaluated(c, moved, shrink, new, m, found)))))

\* no evaluation of the pass iteration or of a later one raises
NoneRaisesFrom(c, iteration) ==
    /\ \A k \in c.raises.reevals : k < iteration
    /\ \A f \in c.raises.candidates : f[1] < iteration

\* A pass in which nothing raises is a function of the offsets and metrics
\* it starts from.  Once such a pass leaves them unchanged, every later pass
\* repeats it: the loop ends at the first pass with iteration > 3 if the
\* width has converged, and at max_iterations otherwise.
RepeatToEnd(c, s) ==
    LET stop == IF s.iterations > 5 THEN s.iterations ELSE 5
    IN  IF ~s.nan /\ WidthConverged(s.m, c.max_width) /\ stop <= c.max_iterations
        THEN [s EXCEPT !.iterations = stop, !.converged = TRUE]
        ELSE [s EXCEPT !.iterations = c.max_iterations]

RECURSIVE OptimizationLoop(_, _)
\* for iteration in range(max_iterations): ... break on convergence
OptimizationLoop(c, s) ==
    IF s.iterations >= c.max_iterations \/ s.converged THEN s
    ELSE With(Iteration(c, s),
              LAMBDA t : IF t.lower = s.lower /\ t.upper = s.upper /\ t.nan = s.nan
                            /\ t.m = s.m
                            /\ ~t.converged /\ t.shrinks = s.shrinks
                            /\ NoneRaisesFrom(c, s.iterations)
                         THEN RepeatToEnd(c, t)
                         ELSE OptimizationLoop(c, t))

\* A final pass that resets every wide peak row evenly around its midpoint,
\* whatever its prediction.
PointwiseOffsetsEvenSplit(c, best_lower, best_upper) ==
    LET lb == LowerBounds(c.median_preds, best_lower, best_upper)
        ub == UpperBounds(c.median_preds, best_lower, best_upper)
        wide(i) == QLt(QInt(c.max_width), QSub(ub[i], lb[i]))
        midpoint(i) == QMul(QAdd(ub[i], lb[i]), <<1, 2>>)
        lb2 == [i \in c.peak |->
                  IF ~wide(i) THEN lb[i]
                  ELSE QSub(midpoint(i), QMul(QInt(c.max_width), <<1, 2>>))]
        ub2 == [i \in c.peak |->
                  IF ~wide(i) THEN ub[i]
                  ELSE QAdd(midpoint(i), QMul(QInt(c.max_width), <<1, 2>>))]
        RECURSIVE QSum(_, _)
        QSum(f, S) == IF S = {} THEN QZero
                      ELSE LET i == CHOOSE x \in S : TRUE
                           IN  QAdd(QSub(f[i], QInt(c.median_preds[i])), QSum(f, S \ {i}))
    IN  <<QDiv(QSum(lb2, c.peak), QInt(Cardinality(c.peak))),
          QDiv(QSum(ub2, c.peak), QInt(Cardinality(c.peak)))>>

\* The final pass over the peak rows: a peak row wider than max_width is
\* reset around its midpoint, split 60/40 when its prediction exceeds 300 and
\* 40/60 otherwise; the offsets become the mean of bound - prediction over
\* the peak rows.
PointwiseOffsets(c, best_lower, best_upper) ==
    LET lb == LowerBounds(c.median_preds, best_lower, best_upper)
        ub == UpperBounds(c.median_preds, best_lower, best_upper)
        wide(i) == QLt(QInt(c.max_width), QSub(ub[i], lb[i]))
        midpoint(i) == QMul(QAdd(ub[i], lb[i]), <<1, 2>>)
        high(i) == c.median_preds[i] > 300
        lb2 == [i \in c.peak |->
                  IF ~wide(i) THEN lb[i]
                  ELSE QSub(midpoint(i),
                            QMul(QInt(c.max_width), IF high(i) THEN <<6, 10>> ELSE <<4, 10>>))]
        ub2 == [i \in c.peak |->
                  IF ~wide(i) THEN ub[i]
                  ELSE QAdd(midpoint(i),
                            QMul(QInt(c.max_width), IF high(i) THEN <<4, 10>> ELSE <<6, 10>>))]
        RECURSIVE QSum(_, _)
        QSum(f, S) == IF S = {} THEN QZero
                      ELSE LET i == CHOOSE x \in S : TRUE
                           IN  QAdd(QSub(f[i], QInt(c.median_preds[i])), QSum(f, S \ {i}))
    IN  <<QDiv(QSum(lb2, c.peak), QInt(Cardinality(c.peak))),
          QDiv(QSum(ub2, c.peak), QInt(Cardinality(c.peak)))>>

\* the offsets of the last iterate of the loop
LastIterate(s) == <<s.lower, s.upper>>

\* best_lower, best_upper: the initial offsets until an iterate is accepted
BestIterate(s) == <<s.best_lower, s.best_upper>>

\* what the search reads: the data, the peak rows and their errors, the
\* limits
SearchContext(median_preds, actual, target_coverage, max_width, max_iterations, hours, const_skew, raises) ==
    LET peak == PeakSolarTimes(hours)
    IN  [median_preds |-> SubSeq(median_preds, 1, Len(median_preds)),
         actual |-> SubSeq(actual, 1, Len(actual)), peak |-> peak,
         have_peak_data |-> peak /= {},
         peak_errors |-> [k \in 1..Cardinality(peak) |->
                            LET i == CHOOSE x \in peak :
                                       Cardinality({y \in peak : y < x}) = k - 1
                            IN  actual[i] - median_preds[i]],
         target_coverage |-> target_coverage,
         max_width |-> max_width, max_iterations |-> max_iterations,
         const_skew |-> const_skew, raises |-> raises]

\* the state before the loop: the initial offsets are evaluated, and are the
\* best so far, with their coverage if their mean width is within max_width
InitialIterate(c, initial_lower, initial_upper) ==
    LET m0 == evaluate_percentiles(c.median_preds, c.actual, c.peak,
                                   initial_lower, initial_upper)
    IN  [lower |-> initial_lower, upper |-> initial_upper, nan |-> FALSE,
         m |-> m0,
         best_covered |-> IF WidthWithin(m0, c.max_width) THEN m0.covered ELSE 0,
         best_lower |-> initial_lower, best_upper |-> initial_upper,
         accepted |-> FALSE, iterations |-> 0, shrinks |-> 0,
         converged |-> FALSE, log |-> <<>>, shrunk |-> <<>>, trace |-> <<>>]

\* a final pass that runs whenever there are peak rows
PointwiseAppliesWithPeakData(c, mb) == c.have_peak_data

\* "if have_peak_data: ... if peak_width > max_width": the final pass runs
\* when the peak width at the best offsets exceeds max_width
PointwiseApplies(c, mb) == c.have_peak_data /\ PeakWidthExceeds(mb, c.max_width)

\* "Final check - force max width constraint for peak times" and the return
FinalCheck(c, s, initial_lower, initial_upper) ==
    LET best == BestIterate(s)
        mb == evaluate_percentiles(c.median_preds, c.actual, c.peak, best[1], best[2])
        pointwise == PointwiseApplies(c, mb)
        final == IF pointwise THEN PointwiseOffsets(c, best[1], best[2]) ELSE best
    IN  [best_lower |-> final[1], best_upper |-> final[2],
         initial_lower |-> initial_lower, initial_upper |-> initial_upper,
         accepted |-> s.accepted, pointwise |-> pointwise,
         iterations |-> s.iterations, shrinks |-> s.shrinks,
         best_covered |-> s.best_covered,
         searched |-> BestIterate(s), converged |-> s.converged, log |-> s.log,
         shrunk |-> s.shrunk, trace |-> s.trace,
         max_width |-> c.max_width, max_iterations |-> c.max_iterations,
         have_peak_data |-> c.have_peak_data,
         m_initial |-> evaluate_percentiles(c.median_preds, c.actual, c.peak,
                                            initial_lower, initial_upper),
         m_best |-> mb]

\* optimize_interval_width(median_preds, actual, initial_lower, initial_upper,
\*                         target_coverage, max_width, max_iterations, timestamps)
\* target_coverage is in percent; it is written to the log and not read
\* again.  hours is the hour of each timestamp, <<>> for timestamps = None;
\* raises names the evaluations inside the loop that raise.
optimize_interval_width(median_preds, actual, initial_lower, initial_upper, target_coverage, max_width, max_iterations, hours, const_skew, raises) ==
    With(SearchContext(median_preds, actual, target_coverage, max_width, max_iterations, hours, const_skew, raises),
         LAMBDA c :
            With(InitialIterate(c, initial_lower, initial_upper),
                 LAMBDA s0 :
                    With(OptimizationLoop(c, s0),
                         LAMBDA s : FinalCheck(c, s, initial_lower, initial_upper))))

-----------------------------------------------------------------------------
(* Interval calibration: the body of calibrate_prediction_intervals for    *)
(* one horizon                                                             *)

\* np.percentile(errors, q) for q = qn/qd percent, linear interpolation
\* between the order statistics around the position q/100 * (n - 1)
Percentile(errors, q) ==
    LET sorted == SortSeq(errors, LAMBDA a, b : a < b)
        n == Len(sorted)
        pos == QMul(QDiv(q, QInt(100)), QInt(n - 1))
        below == pos[1] \div pos[2]
        frac == QSub(pos, QInt(below))
    IN  IF below + 1 >= n THEN QInt(sorted[n])
        ELSE QAdd(QInt(sorted[below + 1]),
                  QMul(frac, QInt(sorted[below + 2] - sorted[below + 1])))

\* alpha * 100 with alpha = (1 - target_coverage) / 2, the coverage given in
\* percent
AlphaPercent(target_coverage) == Q(100 - target_coverage, 2)

\* The largest of the row widths upper_bounds - lower_bounds (np.max)
MaxWidthOf(lower_bounds, upper_bounds) ==
    LET w == [i \in DOMAIN lower_bounds |-> QSub(upper_bounds[i], lower_bounds[i])]
    IN  CHOOSE x \in {w[i] : i \in DOMAIN w} : \A i \in DOMAIN w : QLe(w[i], x)

\* the intervals and widths on the validation set under the offsets found,
\* and what is stored for the horizon
Calibrated(median_preds, actual, search) ==
    LET lower_bounds == LowerBounds(median_preds, search.best_lower, search.best_upper)
        upper_bounds == UpperBounds(median_preds, search.best_lower, search.best_upper)
        m == evaluate_percentiles(median_preds, actual, {}, search.best_lower,
                                  search.best_upper)
    IN  [lower_percentile |-> search.best_lower,
         upper_percentile |-> search.best_upper,
         lower_bounds |-> lower_bounds,
         upper_bounds |-> upper_bounds,
         avg_width |-> AvgWidth(m),
         max_width |-> MaxWidthOf(lower_bounds, upper_bounds),
         search |-> search]

\* max_iterations=20, the default of optimize_interval_width
DefaultMaxIterations == 20

\* One horizon of calibrate_prediction_intervals: the initial percentiles of
\* the errors, the search (max_iterations is not passed on: the default of
\* optimize_interval_width applies), and the intervals and widths on the
\* validation set.
CalibrateHorizon(median_preds, actual, hours, target_coverage, max_interval_width, const_skew, raises) ==
    LET errors == [i \in Indices(median_preds) |-> actual[i] - median_preds[i]]
        alpha100 == AlphaPercent(target_coverage)
        initial_percentiles == <<Percentile(errors, alpha100),
                                 Percentile(errors, QSub(QInt(100), alpha100))>>
    IN  With(initial_percentiles,
             LAMBDA initial :
                With(optimize_interval_width(median_preds, actual, initial[1], initial[2],
                                             target_coverage,
                                             max_interval_width, DefaultMaxIterations,
                                             hours, const_skew, raises),
                     LAMBDA search : Calibrated(median_preds, actual, search)))

-----------------------------------------------------------------------------
(* Regressors, data sets and persisted model directories                   *)

\* what fit(X, y) returned for each horizon: the regressor's output for each
\* of the feature vectors 1..4 (a regressor may return a negative value)
FittedRegressors ==
    [h \in Horizons |->
        CASE h = 1 -> <<-20, 40, 200, 500>>
          [] h = 2 -> <<0, 60, 310, 400>>
          [] h = 3 -> <<-50, 100, 300, 450>>
          [] h = 4 -> <<10, 20, 150, 350>>]

\* self.models_median[horizon].predict(X): one value per row of X
ModelPredict(regressor, X) == [i \in Indices(X) |-> regressor[X[i]]]

\* X_train.columns.tolist()
FeatureColumns == "X_train.columns"

\* A validation or test frame: the feature vector of each row, the hour of
\* its 'datetime' (<<>> when the frame has no 'datetime' column) and the
\* target_GHI_{h}h column of each horizon.
FramePlain ==
    [X |-> <<4, 3, 2>>,
     hours |-> <<>>,
     y |-> [h \in Horizons |->
              CASE h = 1 -> <<300, 400, 240>>
                [] h = 2 -> <<380, 340, 70>>
                [] h = 3 -> <<250, 300, 300>>
                [] h = 4 -> <<320, 150, 0>>]]

FrameTimed ==
    [X |-> <<4, 4, 3, 3>>,
     hours |-> <<12, 13, 11, 8>>,
     y |-> [h \in Horizons |->
              CASE h = 1 -> <<300, 700, 400, 0>>
                [] h = 2 -> <<200, 400, 410, 510>>
                [] h = 3 -> <<650, 650, 500, 100>>
                [] h = 4 -> <<350, 400, 100, 150>>]]

Frames == {FramePlain, FrameTimed}

\* Validation residuals like N(0, 20^2): the quantiles 20 * z(i / 200),
\* i = 0..200, of the normal distribution (the two extremes at 0.5 / 201
\* from the ends), rounded to whole W/m^2; symmetric around 0, with the 5th
\* and 95th percentiles at -33 and +33
NormalResiduals ==
    <<
       -56, -52, -47, -43, -41, -39, -38, -36, -35, -34, -33, -32, -31, -30, -30,
       -29, -28, -27, -27, -26, -26, -25, -25, -24, -23, -23, -23, -22, -22, -21,
       -21, -20, -20, -19, -19, -19, -18, -18, -18, -17, -17, -16, -16, -16, -15,
       -15, -15, -14, -14, -14, -13, -13, -13, -13, -12, -12, -12, -11, -11, -11,
       -10, -10, -10, -10, -9, -9, -9, -9, -8, -8, -8, -7, -7, -7, -7,
       -6, -6, -6, -6, -5, -5, -5, -5, -4, -4, -4, -4, -3, -3, -3,
       -3, -2, -2, -2, -2, -1, -1, -1, -1, 0, 0, 0, 1, 1, 1,
       1, 2, 2, 2, 2, 3, 3, 3, 3, 4, 4, 4, 4, 5, 5,
       5, 5, 6, 6, 6, 6, 7, 7, 7, 7, 8, 8, 8, 9, 9,
       9, 9, 10, 10, 10, 10, 11, 11, 11, 12, 12, 12, 13, 13, 13,
       13, 14, 14, 14, 15, 15, 15, 16, 16, 16, 17, 17, 18, 18, 18,
       19, 19, 19, 20, 20, 21, 21, 22, 22, 23, 23, 23, 24, 25, 25,
       26, 26, 27, 27, 28, 29, 30, 30, 31, 32, 33, 34, 35, 36, 38,
       39, 41, 43, 47, 52, 56
    >>

\* A validation frame without timestamps whose horizon-1 errors are the
\* normal residuals around the prediction 500; the other horizons are
\* predicted exactly
FrameNormal ==
    [X |-> [i \in Indices(NormalResiduals) |-> 4],
     hours |-> <<>>,
     y |-> [h \in Horizons |->
              [i \in Indices(NormalResiduals) |->
                  FittedRegressors[h][4] + (IF h = 1 THEN NormalResiduals[i] ELSE 0)]]]

\* Validation errors in steps of 5 W/m^2 on both sides: five rows below
\* -25, five above 25, the rest between them
LadderResiduals ==
    <<-50, -45, -40, -35, -30, -25>>
    \o [i \in 1..39 |-> IF i < 15 THEN -10 ELSE IF i < 26 THEN 0 ELSE 10]
    \o <<25, 30, 35, 40, 45, 50>>

\* A validation frame without timestamps whose horizon-1 errors are the
\* ladder around the prediction 500; the other horizons are predicted
\* exactly
FrameLadder ==
    [X |-> [i \in Indices(LadderResiduals) |-> 4],
     hours |-> <<>>,
     y |-> [h \in Horizons |->
              [i \in Indices(LadderResiduals) |->
                  FittedRegressors[h][4] + (IF h = 1 THEN LadderResiduals[i] ELSE 0)]]]

\* scipy's skew of a constant sample: 0 in older releases, nan in newer
\* ones; skew is only called when the frame has timestamps
SkewOfConstant(frame) == IF frame.hours = <<>> THEN {"zero"} ELSE {"zero", "nan"}

\* error_percentiles.joblib as found in a model directory: the offsets of a
\* symmetric wide calibration, of a narrow one, same-signed pairs, an
\* inverted pair, and a horizon without offsets
PersistedOffsetsA ==
    [h \in Horizons |->
        CASE h = 1 -> <<QInt(-80), QInt(80)>>
          [] h = 2 -> <<QInt(-20), QInt(30)>>
          [] h = 3 -> <<QInt(10), QInt(40)>>
          [] h = 4 -> <<QInt(-200), QInt(400)>>]

PersistedOffsetsB ==
    [h \in {1, 2, 3} |->
        CASE h = 1 -> <<QInt(30), QInt(-30)>>
          [] h = 2 -> <<QInt(-40), QInt(-10)>>
          [] h = 3 -> <<QInt(-180), QInt(180)>>]

\* interval_widths.json next to them: the mean widths saved with the offsets
WidthsOf(offsets) == [h \in DOMAIN offsets |-> QSub(offsets[h][2], offsets[h][1])]

\* str(k) of a horizon, the key of interval_widths.json, and int(k)
HorizonKey(horizon) ==
    CASE horizon = 1 -> "1" [] horizon = 2 -> "2" [] horizon = 3 -> "3" [] horizon = 4 -> "4"
HorizonOfKey(key) == CHOOSE horizon \in Horizons : HorizonKey(horizon) = key

\* json.dump({str(k): float(v) for k, v in self.interval_widths.items()})
DumpWidths(widths) ==
    [key \in {HorizonKey(h) : h \in DOMAIN widths} |-> widths[HorizonOfKey(key)]]

\* {int(k): v for k, v in width_data.items()}
LoadWidths(width_data) ==
    [h \in {HorizonOfKey(key) : key \in DOMAIN width_data} |-> width_data[HorizonKey(h)]]

\* A model directory: which files load_models finds in it.  has_* says
\* whether feature_columns.json, error_percentiles.joblib (with
\* interval_widths.json) exist; error_percentiles and interval_widths are
\* what the two files hold; models is the set of horizons with an
\* xgboost_model_hour_{h}.json file.
Directory(has_feature_columns, has_percentiles, offsets, models) ==
    [has_feature_columns |-> has_feature_columns, has_percentiles |-> has_percentiles,
     error_percentiles |-> offsets, interval_widths |-> DumpWidths(WidthsOf(offsets)),
     models |-> models]

\* a directory without any of the files
EmptyDirectory == Directory(FALSE, FALSE, EmptyMap, {})

ModelDirectories ==
    {Directory(TRUE, TRUE, PersistedOffsetsA, Horizons),
     Directory(TRUE, TRUE, PersistedOffsetsB, Horizons),
     Directory(TRUE, TRUE, PersistedOffsetsA, Horizons \ {3}),
     Directory(TRUE, FALSE, EmptyMap, Horizons),
     Directory(FALSE, TRUE, PersistedOffsetsA, Horizons),
     EmptyDirectory}

\* the attributes of a forecaster
Instance(columns, models, offsets, widths, max_widths) ==
    [feature_columns |-> columns, models_median |-> models, error_percentiles |-> offsets,
     interval_widths |-> widths, max_interval_widths |-> max_widths]

\* GHIPredictionModel(): error_percentiles and interval_widths do not exist
\* yet, which every reader treats as empty (hasattr)
FreshInstance == Instance(None, EmptyMap, EmptyMap, EmptyMap, EmptyMap)

\* save_models(model_dir): the directory afterwards.  A file is written or
\* overwritten, never removed: the median model of every horizon that has
\* one, feature_columns.json if feature_columns is not None,
\* error_percentiles.joblib and interval_widths.json if the attributes exist
\* (has_calibration).
save_models(instance, model_dir, has_calibration) ==
    [has_feature_columns |-> model_dir.has_feature_columns
                             \/ instance.feature_columns /= None,
     has_percentiles |-> model_dir.has_percentiles \/ has_calibration,
     error_percentiles |-> IF has_calibration THEN instance.error_percentiles
                           ELSE model_dir.error_percentiles,
     interval_widths |-> IF has_calibration THEN DumpWidths(instance.interval_widths)
                         ELSE model_dir.interval_widths,
     models |-> model_dir.models \cup DOMAIN instance.models_median]

\* load_models(model_dir): the forecaster afterwards and the value
\* returned.  Every file is loaded only if it exists, the median models are
\* reset first; max_interval_widths is not persisted.
load_models(instance, model_dir) ==
    [instance |->
        Instance(IF model_dir.has_feature_columns THEN FeatureColumns
                 ELSE instance.feature_columns,
                 [h \in model_dir.models |-> FittedRegressors[h]],
                 IF model_dir.has_percentiles THEN model_dir.error_percentiles
                 ELSE instance.error_percentiles,
                 IF model_dir.has_percentiles THEN LoadWidths(model_dir.interval_widths)
                 ELSE instance.interval_widths,
                 instance.max_interval_widths),
     returned |-> model_dir.models /= {}]

\* target_coverage=0.90, max_interval_width=100
DefaultSetting == [target_coverage |-> 90, max_interval_width |-> 100]

\* (target_coverage in percent, max_interval_width) of a calibration
CalibrationSettings ==
    {DefaultSetting,
     [target_coverage |-> 80, max_interval_width |-> 100],
     [target_coverage |-> 90, max_interval_width |-> 60]}

\* The evaluations of evaluate_percentiles inside the optimization loop that
\* raise during one search: candidates is a set of <<iteration, lower step,
\* upper step>>, reevals the set of iterations whose re-evaluation raises
\* (iterations count from 0, as in range(max_iterations)).
NoFailure == [candidates |-> {}, reevals |-> {}]

EvaluationFailures ==
    {NoFailure,
     [candidates |-> {<<0, 0, 0>>, <<0, 2, 3>>, <<1, 9, 9>>}, reevals |-> {}],
     [candidates |-> {<<1, a, b>> : a \in {0, 1}, b \in 0..9}, reevals |-> {1}]}

\* the failures that are tried with a calibration setting
FailuresFor(setting) == IF setting = DefaultSetting THEN EvaluationFailures ELSE {NoFailure}

\* What one pass of the horizon loop of calibrate_prediction_intervals
\* computes for horizon h, whose median model is FittedRegressors[h]
\* whenever it has one: computed once for each validation set and setting
HorizonCalibrations ==
    [frame \in Frames, setting \in CalibrationSettings, const_skew \in {"zero", "nan"},
     raises \in EvaluationFailures, h \in Horizons |->
        IF const_skew \in SkewOfConstant(frame) /\ raises \in FailuresFor(setting)
        THEN CalibrateHorizon(ModelPredict(FittedRegressors[h], frame.X), frame.y[h],
                              frame.hours, setting.target_coverage,
                              setting.max_interval_width, const_skew, raises)
        ELSE None]

\* The same pass of the horizon loop on the frame of normal residuals, with
\* target_coverage=0.90 and max_interval_width=100
NormalCalibrations ==
    [h \in Horizons |->
        CalibrateHorizon(ModelPredict(FittedRegressors[h], FrameNormal.X), FrameNormal.y[h],
                         FrameNormal.hours, DefaultSetting.target_coverage,
                         DefaultSetting.max_interval_width, "zero", NoFailure)]

\* target_coverage=0.80, max_interval_width=100
LadderSetting == [target_coverage |-> 80, max_interval_width |-> 100]

\* The same pass on the ladder frame, with target_coverage=0.80 and
\* max_interval_width=100
LadderCalibrations ==
    [h \in Horizons |->
        CalibrateHorizon(ModelPredict(FittedRegressors[h], FrameLadder.X), FrameLadder.y[h],
                         FrameLadder.hours, LadderSetting.target_coverage,
                         LadderSetting.max_interval_width, "zero", NoFailure)]

\* the pass of the horizon loop for horizon h, looked up
HorizonCalibration(frame, setting, const_skew, raises, h) ==
    IF frame = FrameNormal THEN NormalCalibrations[h]
    ELSE IF frame = FrameLadder THEN LadderCalibrations[h]
    ELSE HorizonCalibrations[frame, setting, const_skew, raises, h]

-----------------------------------------------------------------------------
(* Prediction-time adjuster: predict                                       *)

\* timestamp + pd.Timedelta(hours=horizon): a timestamp is its month, its
\* hour and whether its day is the last of the month
AddHours(datetime, hours) ==
    LET total == datetime.hour + hours
    IN  [month |-> IF total >= 24 /\ datetime.last_day
                   THEN (datetime.month % 12) + 1 ELSE datetime.month,
         hour |-> total % 24]

\* night from 18:00 to 05:00 in every month
IsNighttimeAllYear(month, hour) == hour >= 18 \/ hour < 5

\* the seasonal rule: cool dry (12, 1, 2), hot dry (3, 4, 5), rainy (6..11)
IsNighttime(month, hour) ==
    IF month \in {12, 1, 2} THEN hour >= 18 \/ hour < 6
    ELSE IF month \in {3, 4, 5} THEN hour >= 18 \/ hour < 5
    ELSE hour >= 18 \/ hour < 6

IsTransitionTime(month, hour) ==
    IF month \in {12, 1, 2} THEN hour = 6 \/ hour = 17
    ELSE IF month \in {3, 4, 5} THEN hour = 5 \/ hour = 17
    ELSE hour = 6 \/ hour = 17

\* the 'datetime' entry of a row of a frame without that column
NoDatetime == [month |-> 0, hour |-> 0, last_day |-> FALSE]

\* 'datetime' in X_new.columns
HasDatetime(X_new) == \A i \in Indices(X_new) : X_new[i].datetime /= NoDatetime

\* is_night: from the target timestamp, or from solar_zenith_cos <= 0.01
\* when there is no 'datetime' column
NightMask(X_new, horizon) ==
    [i \in Indices(X_new) |->
        IF HasDatetime(X_new)
        THEN LET t == AddHours(X_new[i].datetime, horizon)
             IN  IsNighttime(t.month, t.hour)
        ELSE X_new[i].night]

\* is_transition: "elif is_transition_time" of the target timestamp, or
\* the is_transition column when there is no 'datetime' column
TransitionMask(X_new, horizon) ==
    [i \in Indices(X_new) |->
        IF HasDatetime(X_new)
        THEN LET t == AddHours(X_new[i].datetime, horizon)
             IN  ~IsNighttime(t.month, t.hour) /\ IsTransitionTime(t.month, t.hour)
        ELSE X_new[i].is_transition]

\* noon_times and peak_solar_times (all False without 'datetime')
NoonTimes(X_new, horizon) ==
    [i \in Indices(X_new) |->
        /\ HasDatetime(X_new)
        /\ AddHours(X_new[i].datetime, horizon).hour = 12
        /\ ~NightMask(X_new, horizon)[i] /\ ~TransitionMask(X_new, horizon)[i]]

PeakSolarMask(X_new, horizon) ==
    [i \in Indices(X_new) |->
        /\ HasDatetime(X_new)
        /\ AddHours(X_new[i].datetime, horizon).hour >= 11
        /\ AddHours(X_new[i].datetime, horizon).hour <= 13
        /\ ~NightMask(X_new, horizon)[i] /\ ~TransitionMask(X_new, horizon)[i]]

\* np.any(mask)
AnyOf(mask) == \E i \in DOMAIN mask : mask[i]

\* transition_factor = 0.3
TransitionFactor == <<3, 10>>

\* horizon_preds['predicted']: night rows set to 0; if any row of the batch
\* is in transition, every row is floored at 0 and the transition rows are
\* multiplied by 0.3
PredictedMedian(raw, is_night, is_transition) ==
    [i \in DOMAIN raw |->
        LET night_applied == IF is_night[i] THEN QZero ELSE QInt(raw[i])
            floored == QMax(QZero, night_applied)
        IN  IF ~AnyOf(is_transition) THEN night_applied
            ELSE IF is_transition[i] THEN QMul(floored, TransitionFactor)
            ELSE floored]

\* lower_bounds / upper_bounds before the width enforcement: offsets added to
\* the (already adjusted) median, night rows set to 0, floor at 0, transition
\* rows multiplied by 0.3
RawBounds(median_preds, offsets, is_night, is_transition) ==
    [i \in DOMAIN median_preds |->
        LET lower == IF is_night[i] THEN QZero
                     ELSE QMax(QZero, QAdd(median_preds[i], offsets[1]))
            upper == IF is_night[i] THEN QZero
                     ELSE QMax(QZero, QAdd(median_preds[i], offsets[2]))
        IN  IF is_transition[i]
            THEN <<QMul(lower, TransitionFactor), QMul(upper, TransitionFactor)>>
            ELSE <<lower, upper>>]

\* max_interval_width of predict
PredictMaxIntervalWidth == 100

\* midpoint - max_interval_width * below, midpoint + max_interval_width * above
AroundMidpoint(bounds, below, above) ==
    LET midpoint == QMul(QAdd(bounds[2], bounds[1]), <<1, 2>>)
    IN  <<QSub(midpoint, QMul(QInt(PredictMaxIntervalWidth), below)),
          QAdd(midpoint, QMul(QInt(PredictMaxIntervalWidth), above))>>

\* the split below / above the midpoint for a row wider than the maximum:
\* noon 0.58 / 0.4 above 300 W/m^2 and 0.49 / 0.49 otherwise, the other peak
\* hours 0.6 / 0.4 and 0.5 / 0.5, the rest of the day 0.5 / 0.5
WidthSplit(pred_level, noon, peak) ==
    IF noon THEN (IF QLt(QInt(300), pred_level) THEN <<(<<58, 100>>), (<<4, 10>>)>>
                  ELSE <<(<<49, 100>>), (<<49, 100>>)>>)
    ELSE IF peak THEN (IF QLt(QInt(300), pred_level) THEN <<(<<6, 10>>), (<<4, 10>>)>>
                       ELSE <<(<<1, 2>>), (<<1, 2>>)>>)
    ELSE <<(<<1, 2>>), (<<1, 2>>)>>

\* first pass over one row: night and transition rows are skipped
FirstPass(bounds, pred_level, night, transition, noon, peak) ==
    IF night \/ transition THEN bounds
    ELSE IF QLt(QInt(PredictMaxIntervalWidth), QSub(bounds[2], bounds[1]))
    THEN AroundMidpoint(bounds, WidthSplit(pred_level, noon, peak)[1],
                        WidthSplit(pred_level, noon, peak)[2])
    ELSE bounds

\* second pass over one noon row still wider than the maximum: the width is
\* scaled to 0.99 * max_interval_width around the midpoint
SecondPass(bounds, noon) ==
    LET width == QSub(bounds[2], bounds[1])
        scaling_factor == QDiv(QMul(<<99, 100>>, QInt(PredictMaxIntervalWidth)), width)
        half_width == QMul(QMul(width, scaling_factor), <<1, 2>>)
        midpoint == QMul(QAdd(bounds[2], bounds[1]), <<1, 2>>)
    IN  IF noon /\ QLt(QInt(PredictMaxIntervalWidth), width)
        THEN <<QSub(midpoint, half_width), QAdd(midpoint, half_width)>>
        ELSE bounds

\* the bounds as the width enforcement leaves them, the final check left out
FinalBoundsUnchecked(bounds) == bounds

\* "Final check": lower = max(0, lower), upper = max(lower, upper)
FinalBounds(bounds) ==
    LET lower == QMax(QZero, bounds[1])
    IN  <<lower, QMax(lower, bounds[2])>>

\* one horizon of predict: the regressor's outputs adjusted, and the interval
\* of each row when the horizon has offsets
PredictHorizon(regressor, calibration, horizon, X_new) ==
    LET is_night == NightMask(X_new, horizon)
        is_transition == TransitionMask(X_new, horizon)
        noon_times == NoonTimes(X_new, horizon)
        peak_solar_times == PeakSolarMask(X_new, horizon)
        median_preds == PredictedMedian(ModelPredict(regressor, [i \in Indices(X_new) |-> X_new[i].x]),
                                        is_night, is_transition)
        has_interval == horizon \in DOMAIN calibration
        raw == RawBounds(median_preds, calibration[horizon], is_night, is_transition)
        bounds == [i \in Indices(X_new) |->
                     FinalBounds(SecondPass(FirstPass(raw[i], median_preds[i], is_night[i],
                                                      is_transition[i], noon_times[i],
                                                      peak_solar_times[i]),
                                            noon_times[i]))]
    IN  [predicted |-> median_preds,
         has_interval |-> has_interval,
         lower |-> IF has_interval THEN [i \in Indices(X_new) |-> bounds[i][1]] ELSE None,
         upper |-> IF has_interval THEN [i \in Indices(X_new) |-> bounds[i][2]] ELSE None]

\* predict(X_new): ValueError when feature_columns is None or when a
\* horizon of forecast_horizons has no median model
predict(columns, models, calibration, X_new) ==
    IF columns = None \/ \E h \in Horizons : h \notin DOMAIN models
    THEN [raised |-> "ValueError", predictions |-> EmptyMap]
    ELSE [raised |-> None,
          predictions |-> [h \in Horizons |->
                              PredictHorizon(models[h], calibration, h, X_new)]]

-----------------------------------------------------------------------------
(* Future-hours forecaster: predict_future_hours                           *)

\* round(value, 2): the nearest hundredth, a tie going to the even one
Round2(q) ==
    LET scaled == 100 * q[1]
        floor == scaled \div q[2]
        rest == scaled % q[2]
        nearest == IF 2 * rest > q[2] THEN floor + 1
                   ELSE IF 2 * rest < q[2] THEN floor
                   ELSE IF floor % 2 = 0 THEN floor ELSE floor + 1
    IN  Q(nearest, 100)

\* one pass of "for hour in range(...)" for an hour that has a median model;
\* without offsets the bounds are None, unless the hour is at night: then
\* they are set to 0.0 with the median
FutureRow(regressor, calibration, hour, row) ==
    LET median_pred == QInt(regressor[row.x])
        has_offsets == hour \in DOMAIN calibration
        lower_bound == QMax(QZero, QAdd(median_pred, calibration[hour][1]))
        upper_bound == QMax(lower_bound, QAdd(median_pred, calibration[hour][2]))
        t == AddHours(row.datetime, hour)
        is_nighttime == row.datetime /= NoDatetime /\ IsNighttime(t.month, t.hour)
        is_transition == row.datetime /= NoDatetime /\ ~is_nighttime
                            /\ IsTransitionTime(t.month, t.hour)
        adjust(value) == IF is_nighttime THEN QZero
                         ELSE IF is_transition
                         THEN QMul(QMax(QZero, value), TransitionFactor)
                         ELSE value
    IN  [horizon |-> hour,
         median |-> Round2(adjust(median_pred)),
         has_interval |-> has_offsets \/ is_nighttime,
         lower_bound |-> IF has_offsets THEN Round2(adjust(lower_bound))
                         ELSE IF is_nighttime THEN QZero ELSE None,
         upper_bound |-> IF has_offsets THEN Round2(adjust(upper_bound))
                         ELSE IF is_nighttime THEN QZero ELSE None]

\* predict_future_hours(data, num_hours) on the last row of data: TypeError
\* from set(self.feature_columns) when feature_columns is None; otherwise
\* one row per hour of range(1, min(num_hours + 1, max(horizons) + 1)) that
\* has a median model (the method returns None when there is no such row)
predict_future_hours(columns, models, calibration, row, num_hours) ==
    LET last == IF num_hours < Len(forecast_horizons) THEN num_hours
                ELSE Len(forecast_horizons)
        hours == SelectSeq([h \in 1..last |-> h], LAMBDA h : h \in DOMAIN models)
    IN  IF columns = None
        THEN [raised |-> "TypeError", future_predictions |-> <<>>]
        ELSE [raised |-> None,
              future_predictions |->
                  [k \in Indices(hours) |->
                      FutureRow(models[hours[k]], calibration, hours[k], row)]]

-----------------------------------------------------------------------------
(* Evaluator: evaluate_validation and evaluate_models                      *)

\* the interval part of one horizon's metrics: bounds from the offsets,
\* floored and ordered, their coverage and their mean and maximum width
IntervalMetrics(median_preds, actual, calibration, horizon) ==
    LET has_interval == horizon \in DOMAIN calibration
        lower_bounds == LowerBounds(median_preds, calibration[horizon][1],
                                    calibration[horizon][2])
        upper_bounds == UpperBounds(median_preds, calibration[horizon][1],
                                    calibration[horizon][2])
        m == evaluate_percentiles(median_preds, actual, {}, calibration[horizon][1],
                                  calibration[horizon][2])
    IN  [has_interval |-> has_interval,
         lower_bounds |-> IF has_interval THEN lower_bounds ELSE None,
         upper_bounds |-> IF has_interval THEN upper_bounds ELSE None,
         coverage |-> IF has_interval THEN Coverage(m) ELSE None,
         interval_width |-> IF has_interval THEN AvgWidth(m) ELSE None,
         interval_max_width |-> IF has_interval
                                THEN MaxWidthOf(lower_bounds, upper_bounds) ELSE None]

\* evaluate_validation(X_val, y_val): self.models_median[horizon] raises
\* KeyError for a horizon without a median model
evaluate_validation(models, calibration, frame) ==
    IF \E h \in Horizons : h \notin DOMAIN models
    THEN [raised |-> "KeyError", metrics |-> EmptyMap]
    ELSE [raised |-> None,
          metrics |-> [h \in Horizons |->
                          IntervalMetrics(ModelPredict(models[h], frame.X), frame.y[h],
                                          calibration, h)]]

\* max_width = 100 of analyze_interval_widths_by_hour
AnalysisMaxWidth == 100

\* analyze_interval_widths_by_hour(X_data, y_data, horizon): None without
\* offsets for the horizon, without a 'datetime' column, without
\* feature_columns, or when the median model cannot predict; otherwise the
\* statistics of the interval widths grouped by hour of day
analyze_interval_widths_by_hour(columns, models, calibration, frame, horizon) ==
    IF \/ horizon \notin DOMAIN calibration
       \/ frame.hours = <<>>
       \/ columns = None
       \/ horizon \notin DOMAIN models
    THEN [raised |-> None, has_stats |-> FALSE, hourly_stats |-> EmptyMap]
    ELSE LET median_preds == ModelPredict(models[horizon], frame.X)
             lower_bounds == LowerBounds(median_preds, calibration[horizon][1],
                                         calibration[horizon][2])
             upper_bounds == UpperBounds(median_preds, calibration[horizon][1],
                                         calibration[horizon][2])
             widths == [i \in Indices(median_preds) |->
                          QSub(upper_bounds[i], lower_bounds[i])]
             rows(hour) == {i \in Indices(median_preds) : frame.hours[i] = hour}
             covered(hour) == {i \in rows(hour) :
                                  /\ QLe(lower_bounds[i], QInt(frame.y[horizon][i]))
                                  /\ QLe(QInt(frame.y[horizon][i]), upper_bounds[i])}
             exceeding(hour) == {i \in rows(hour) : QLt(QInt(AnalysisMaxWidth), widths[i])}
         IN  [raised |-> None, has_stats |-> TRUE,
              hourly_stats |->
                 [hour \in {frame.hours[i] : i \in Indices(frame.hours)} |->
                     [width_max |-> CHOOSE w \in {widths[i] : i \in rows(hour)} :
                                       \A i \in rows(hour) : QLe(widths[i], w),
                      width_min |-> CHOOSE w \in {widths[i] : i \in rows(hour)} :
                                       \A i \in rows(hour) : QLe(w, widths[i]),
                      coverage_mean |-> Q(Cardinality(covered(hour)),
                                          Cardinality(rows(hour))),
                      pct_exceeding_max |-> Q(100 * Cardinality(exceeding(hour)),
                                              Cardinality(rows(hour))),
                      n_samples |-> Cardinality(rows(hour))]]]

\* y_pred_median = np.maximum(0, y_pred_median)
NonNegative(preds) == [i \in Indices(preds) |-> IF preds[i] < 0 THEN 0 ELSE preds[i]]

\* evaluate_models(X_test, y_test, timestamps): as evaluate_validation, on
\* the median floored at 0
evaluate_models(models, calibration, frame) ==
    IF \E h \in Horizons : h \notin DOMAIN models
    THEN [raised |-> "KeyError", metrics |-> EmptyMap]
    ELSE [raised |-> None,
          metrics |-> [h \in Horizons |->
                          IntervalMetrics(NonNegative(ModelPredict(models[h], frame.X)),
                                          frame.y[h], calibration, h)]]

-----------------------------------------------------------------------------
(* Rows handed to predict and predict_future_hours                         *)

\* A row with a 'datetime' column: the feature vector and the timestamp
DatedRow(x, month, hour, last_day) ==
    [x |-> x, datetime |-> [month |-> month, hour |-> hour, last_day |-> last_day],
     night |-> FALSE, is_transition |-> FALSE]

\* A row without one: solar_zenith_cos <= 0.01 and the is_transition column
UndatedRow(x, night, is_transition) ==
    [x |-> x, datetime |-> NoDatetime, night |-> night, is_transition |-> is_transition]

\* late morning in the rainy season, dawn in the hot dry season, afternoon
\* into dusk in the cool dry season (negative regressor outputs), the last
\* evening of a month, dawn in the cool dry season, dusk, two mornings
\* running into the peak hours
CoreRows ==
    {DatedRow(4, 7, 11, FALSE), DatedRow(4, 4, 1, FALSE), DatedRow(1, 1, 14, FALSE),
     DatedRow(2, 12, 5, FALSE), DatedRow(4, 1, 16, FALSE)}

DatedRows ==
    CoreRows
    \cup {DatedRow(3, 7, 22, TRUE), DatedRow(3, 4, 9, FALSE), DatedRow(2, 7, 10, FALSE)}
    \cup {DatedRow(4, month, 1, FALSE) : month \in 1..12}

UndatedRows ==
    {UndatedRow(4, FALSE, FALSE), UndatedRow(1, TRUE, FALSE), UndatedRow(3, FALSE, TRUE)}

\* X_new of predict: one row, or up to MaxBatch rows that all have the
\* 'datetime' column or all lack it
MaxBatch == 2

SeqsOver(rows, n) == {s \in [1..n -> rows] : TRUE}

Batches ==
    {<<r>> : r \in DatedRows \cup UndatedRows}
    \cup UNION {SeqsOver(CoreRows, n) : n \in 2..MaxBatch}
    \cup UNION {SeqsOver(UndatedRows, n) : n \in 2..MaxBatch}

\* num_hours of predict_future_hours
MaxNumHours == 5

-----------------------------------------------------------------------------
(* Sequential splitter                                                     *)

\* the largest table handed to split_time_series_data
MaxN == 4

\* the test_size / val_size fractions tried, in percent
Fractions == {10, 20, 50, 90}

RECURSIVE SortValues(_)
\* data.sort_values('datetime'): ascending (the rows are their timestamps)
SortValues(S) ==
    IF S = {} THEN <<>>
    ELSE LET m == CHOOSE x \in S : \A y \in S : x <= y
         IN  <<m>> \o SortValues(S \ {m})

Range(s) == {s[i] : i \in 1..Len(s)}

\* data.iloc[a:b] with 0-based a, b
Iloc(s, a, b) == SubSeq(s, a + 1, b)

\* int(n * (1 - size)) with size = pct / 100
CutIndex(n, pct) == (n * (100 - pct)) \div 100

TrainSliceDropsLast(train_val_data, train_idx) ==
    Iloc(train_val_data, 0, train_idx - 1)

TrainSlice(train_val_data, train_idx) ==
    Iloc(train_val_data, 0, train_idx)

ValSliceOverlaps(train_val_data, train_idx) ==
    Iloc(train_val_data, IF train_idx > 0 THEN train_idx - 1 ELSE 0,
         Len(train_val_data))

ValSlice(train_val_data, train_idx) ==
    Iloc(train_val_data, train_idx, Len(train_val_data))

split_time_series_data(data, test_size, val_size) ==
    LET sorted == SortValues(Range(data))
        train_val_idx == CutIndex(Len(sorted), test_size)
        train_val_data == Iloc(sorted, 0, train_val_idx)
        test_data == Iloc(sorted, train_val_idx, Len(sorted))
        train_idx == CutIndex(Len(train_val_data), val_size)
    IN  [train |-> TrainSlice(train_val_data, train_idx),
         val |-> ValSlice(train_val_data, train_idx),
         test |-> test_data]

\* the timestamps a table may hold
Timestamps == 1..(MaxN + 1)

\* tables of 1 to MaxN rows with distinct timestamps, in any row order
Tables ==
    {s \in UNION {[1..n -> Timestamps] : n \in 1..MaxN} :
        \A i, j \in 1..Len(s) : i /= j => s[i] /= s[j]}

-----------------------------------------------------------------------------
(* The instance after __init__                                             *)

\* no call of predict is remembered
NoCall ==
    [called |-> FALSE, feature_columns |-> None, models_median |-> EmptyMap,
     error_percentiles |-> EmptyMap, max_interval_widths |-> EmptyMap,
     X_new |-> <<>>, out |-> [raised |-> None]]

Constructed ==
    /\ feature_columns = None
    /\ models_median = EmptyMap
    /\ error_percentiles = EmptyMap
    /\ interval_widths = EmptyMap
    /\ max_interval_widths = EmptyMap
    /\ pc = "idle"
    /\ op = "__init__"
    /\ args = <<>>
    /\ out = <<>>
    /\ earlier = NoCall

self_vars == <<feature_columns, models_median, error_percentiles,
               interval_widths, max_interval_widths>>

\* the caller takes the returned value (a Prediction is not part of the
\* instance's state); the next call may start
Return ==
    /\ pc = "returned"
    /\ pc' = "idle"
    /\ op' = "return"
    /\ args' = <<>>
    /\ out' = <<>>
    /\ UNCHANGED <<self_vars, earlier>>

SplitTimeSeriesData(data, test_size, val_size) ==
    /\ pc = "idle"
    /\ pc' = "returned"
    /\ op' = "split_time_series_data"
    /\ args' = [data |-> data, test_size |-> test_size, val_size |-> val_size]
    /\ out' = split_time_series_data(data, test_size, val_size)
    /\ UNCHANGED <<self_vars, earlier>>

InitSplit == Constructed

NextSplit ==
    \/ \E data \in Tables, test_size \in Fractions, val_size \in Fractions :
          SplitTimeSeriesData(data, test_size, val_size)
    \/ Return

SpecSplit == InitSplit /\ [][NextSplit]_vars

-----------------------------------------------------------------------------
(* The forecaster: training, loading, calibration, evaluation, serving     *)

\* self.feature_columns = ... (prepare_train_test_data, and run_pipeline
\* before it scales and trains); the scaler is fitted with it
SetFeatureColumns ==
    /\ pc = "idle"
    /\ pc' = "returned"
    /\ op' = "prepare_train_test_data"
    /\ args' = <<>>
    /\ out' = FeatureColumns
    /\ feature_columns' = FeatureColumns
    /\ UNCHANGED <<models_median, error_percentiles, interval_widths,
                   max_interval_widths, earlier>>

\* train_models(X_train, y_train): a median regressor for every horizon
TrainModels ==
    /\ pc = "idle"
    /\ pc' = "returned"
    /\ op' = "train_models"
    /\ args' = <<>>
    /\ out' = None
    /\ models_median' = FittedRegressors
    /\ UNCHANGED <<feature_columns, error_percentiles, interval_widths,
                   max_interval_widths, earlier>>

\* the forecaster as it is
Self ==
    Instance(feature_columns, models_median, error_percentiles, interval_widths,
             max_interval_widths)

LoadModels(model_dir) ==
    LET loaded == load_models(Self, model_dir)
    IN  /\ pc = "idle"
        /\ pc' = "returned"
        /\ op' = "load_models"
        /\ args' = [model_dir |-> model_dir]
        /\ feature_columns' = loaded.instance.feature_columns
        /\ error_percentiles' = loaded.instance.error_percentiles
        /\ interval_widths' = loaded.instance.interval_widths
        /\ models_median' = loaded.instance.models_median
        /\ max_interval_widths' = loaded.instance.max_interval_widths
        /\ out' = loaded.returned
        /\ UNCHANGED earlier

\* save_models(model_dir) into a directory that holds model_dir: the
\* forecaster is not changed.  Empty error_percentiles and interval_widths
\* stand both for attributes that do not exist and for empty dictionaries.
SaveModels(model_dir, has_calibration) ==
    /\ pc = "idle"
    /\ has_calibration \/ (error_percentiles = EmptyMap /\ interval_widths = EmptyMap)
    /\ pc' = "returned"
    /\ op' = "save_models"
    /\ args' = [model_dir |-> model_dir, has_calibration |-> has_calibration]
    /\ out' = [raised |-> None, returned |-> TRUE,
               model_dir |-> save_models(Self, model_dir, has_calibration)]
    /\ UNCHANGED <<self_vars, earlier>>

\* a dictionary that keeps what it had
KeptEntries(entries) == entries

\* self.error_percentiles = {} (and interval_widths, max_interval_widths):
\* what is left of the previous entries
DiscardedEntries(entries) == EmptyMap

\* dictionary[horizon] = value for every horizon of values
StoreHorizons(entries, values) ==
    [h \in DOMAIN entries \cup DOMAIN values |->
        IF h \in DOMAIN values THEN values[h] ELSE entries[h]]

\* max_iterations=10, the default of calibrate_prediction_intervals
CalibrateMaxIterations == 10

\* calibrate_prediction_intervals(X_val, y_val, target_coverage,
\* max_iterations, max_interval_width): the three dictionaries are reset,
\* horizons without a median model are skipped, X_val[self.feature_columns]
\* raises TypeError at the first horizon with a model when feature_columns
\* is None.  max_iterations is not read.
Calibrate(frame, setting, const_skew, raises, max_iterations) ==
    LET calibrated == [h \in DOMAIN models_median |->
                          HorizonCalibration(frame, setting, const_skew, raises, h)]
        type_error == feature_columns = None /\ DOMAIN models_median /= {}
        horizons == IF type_error THEN EmptyMap ELSE calibrated
    IN  /\ pc = "idle"
        /\ pc' = "returned"
        /\ op' = "calibrate_prediction_intervals"
        /\ args' = [frame |-> frame, target_coverage |-> setting.target_coverage,
                    max_iterations |-> max_iterations,
                    max_interval_width |-> setting.max_interval_width,
                    const_skew |-> const_skew, raises |-> raises]
        /\ error_percentiles' =
              StoreHorizons(DiscardedEntries(error_percentiles),
                            [h \in DOMAIN horizons |-> <<horizons[h].lower_percentile,
                                                         horizons[h].upper_percentile>>])
        /\ interval_widths' =
              StoreHorizons(DiscardedEntries(interval_widths),
                            [h \in DOMAIN horizons |-> horizons[h].avg_width])
        /\ max_interval_widths' =
              StoreHorizons(DiscardedEntries(max_interval_widths),
                            [h \in DOMAIN horizons |-> horizons[h].max_width])
        /\ out' = [raised |-> IF type_error THEN "TypeError" ELSE None,
                   horizons |-> horizons]
        /\ UNCHANGED <<feature_columns, models_median, earlier>>

EvaluateValidation(frame) ==
    /\ pc = "idle"
    /\ pc' = "returned"
    /\ op' = "evaluate_validation"
    /\ args' = [frame |-> frame]
    /\ out' = evaluate_validation(models_median, error_percentiles, frame)
    /\ UNCHANGED <<self_vars, earlier>>

EvaluateModels(frame) ==
    /\ pc = "idle"
    /\ pc' = "returned"
    /\ op' = "evaluate_models"
    /\ args' = [frame |-> frame]
    /\ out' = evaluate_models(models_median, error_percentiles, frame)
    /\ UNCHANGED <<self_vars, earlier>>

\* a predict that serves intervals only to a forecaster calibrated in this
\* process
PredictCalibratedHere(X_new) ==
    /\ pc = "idle"
    /\ pc' = "returned"
    /\ op' = "predict"
    /\ args' = [X_new |-> X_new]
    /\ out' = predict(feature_columns, models_median,
                      IF max_interval_widths = EmptyMap THEN EmptyMap
                      ELSE error_percentiles, X_new)
    /\ UNCHANGED <<self_vars, earlier>>

Predict(X_new) ==
    /\ pc = "idle"
    /\ pc' = "returned"
    /\ op' = "predict"
    /\ args' = [X_new |-> X_new]
    /\ out' = predict(feature_columns, models_median, error_percentiles, X_new)
    /\ UNCHANGED <<self_vars, earlier>>

\* the same call of predict, kept for comparison with a later one
PredictFirst(X_new) ==
    /\ pc = "idle"
    /\ ~earlier.called
    /\ pc' = "returned"
    /\ op' = "predict"
    /\ args' = [X_new |-> X_new]
    /\ out' = predict(feature_columns, models_median, error_percentiles, X_new)
    /\ earlier' = [called |-> TRUE, feature_columns |-> feature_columns,
                   models_median |-> models_median,
                   error_percentiles |-> error_percentiles,
                   max_interval_widths |-> max_interval_widths,
                   X_new |-> X_new, out |-> out']
    /\ UNCHANGED self_vars

PredictFutureHours(row, num_hours) ==
    /\ pc = "idle"
    /\ pc' = "returned"
    /\ op' = "predict_future_hours"
    /\ args' = [row |-> row, num_hours |-> num_hours]
    /\ out' = predict_future_hours(feature_columns, models_median, error_percentiles,
                                   row, num_hours)
    /\ UNCHANGED <<self_vars, earlier>>

AnalyzeIntervalWidthsByHour(frame, horizon) ==
    /\ pc = "idle"
    /\ pc' = "returned"
    /\ op' = "analyze_interval_widths_by_hour"
    /\ args' = [frame |-> frame, horizon |-> horizon]
    /\ out' = analyze_interval_widths_by_hour(feature_columns, models_median,
                                              error_percentiles, frame, horizon)
    /\ UNCHANGED <<self_vars, earlier>>

Init == Constructed

Next ==
    \/ SetFeatureColumns
    \/ TrainModels
    \/ \E model_dir \in ModelDirectories : LoadModels(model_dir)
    \/ \E model_dir \in ModelDirectories, has_calibration \in BOOLEAN :
          SaveModels(model_dir, has_calibration)
    \/ \E frame \in Frames, setting \in CalibrationSettings :
          \E const_skew \in SkewOfConstant(frame), raises \in FailuresFor(setting) :
              Calibrate(frame, setting, const_skew, raises, CalibrateMaxIterations)
    \/ \E frame \in {FrameNormal} :
          Calibrate(frame, DefaultSetting, "zero", NoFailure, CalibrateMaxIterations)
    \/ \E frame \in {FrameLadder}, max_iterations \in {3, CalibrateMaxIterations} :
          Calibrate(frame, LadderSetting, "zero", NoFailure, max_iterations)
    \/ \E frame \in Frames : EvaluateValidation(frame)
    \/ \E frame \in Frames : EvaluateModels(frame)
    \/ \E X_new \in Batches : Predict(X_new)
    \/ \E row \in DatedRows \cup UndatedRows, num_hours \in 1..MaxNumHours :
          PredictFutureHours(row, num_hours)
    \/ \E frame \in Frames, horizon \in Horizons :
          AnalyzeIntervalWidthsByHour(frame, horizon)
    \/ Return

Spec == Init /\ [][Next]_vars

\* The forecaster with one call of predict kept for comparison: the same
\* methods, on the default calibration setting, and predict on the batches
\* that are asked for twice.
RepeatedBatches ==
    {<<DatedRow(4, 7, 11, FALSE)>>,
     <<DatedRow(4, 1, 16, FALSE), DatedRow(4, 4, 1, FALSE)>>,
     <<UndatedRow(4, FALSE, FALSE)>>}

NextRepeat ==
    \/ SetFeatureColumns
    \/ TrainModels
    \/ \E model_dir \in ModelDirectories : LoadModels(model_dir)
    \/ \E model_dir \in {EmptyDirectory} : SaveModels(model_dir, TRUE)
    \/ \E frame \in Frames :
          Calibrate(frame, DefaultSetting, "zero", NoFailure, CalibrateMaxIterations)
    \/ \E frame \in {FrameTimed} : EvaluateValidation(frame)
    \/ \E frame \in {FrameTimed} : EvaluateModels(frame)
    \/ \E frame \in {FrameTimed} : AnalyzeIntervalWidthsByHour(frame, 1)
    \/ \E X_new \in RepeatedBatches : PredictFirst(X_new)
    \/ \E X_new \in RepeatedBatches : Predict(X_new)
    \/ \E row \in {DatedRow(4, 7, 11, FALSE)} : PredictFutureHours(row, 4)
    \/ Return

SpecRepeat == Init /\ [][NextRepeat]_vars

-----------------------------------------------------------------------------
(* Properties of calibration and serving                                   *)

\* a call of the named method has returned without raising
ReturnedFrom(method) == pc = "returned" /\ op = method /\ out.raised = None

CalibrateReturned == ReturnedFrom("calibrate_prediction_intervals")
PredictReturned == ReturnedFrom("predict")
FutureHoursReturned == ReturnedFrom("predict_future_hours")

RECURSIVE QSumBetween(_, _, _)
\* f[lo] + ... + f[hi] of fractions, by halves
QSumBetween(f, lo, hi) ==
    IF lo > hi THEN QZero
    ELSE IF lo = hi THEN f[lo]
    ELSE QAdd(QSumBetween(f, lo, (lo + hi) \div 2),
              QSumBetween(f, ((lo + hi) \div 2) + 1, hi))

\* f[1] + ... + f[k] of fractions
QSumTo(f, k) == QSumBetween(f, 1, k)

\* mean(upper - lower) of the intervals built from the offsets on preds:
\* lower = max(0, pred + lower_offset), upper = max(lower, pred + upper_offset)
MeanWidthFrom(preds, offsets) ==
    LET lower == [i \in Indices(preds) |-> QMax(QZero, QAdd(QInt(preds[i]), offsets[1]))]
        upper == [i \in Indices(preds) |-> QMax(lower[i], QAdd(QInt(preds[i]), offsets[2]))]
        widths == [i \in Indices(preds) |-> QSub(upper[i], lower[i])]
    IN  QDiv(QSumTo(widths, Len(preds)), QInt(Len(preds)))

\* C1 as stated: after calibrate_prediction_intervals returns, for every
\* calibrated horizon the intervals built from the stored offsets on the
\* validation set have a mean width of at most max_interval_width + 0.5.
C1_Original ==
    CalibrateReturned =>
        \A h \in DOMAIN error_percentiles :
            QLe(MeanWidthFrom(ModelPredict(models_median[h], args.frame.X),
                              error_percentiles[h]),
                QAdd(QInt(args.max_interval_width), <<1, 2>>))

\* the default of max_interval_width (run_pipeline, calibrate_prediction_intervals)
DefaultMaxIntervalWidth == 100

\* C2 as stated: every interval that predict and predict_future_hours return
\* is at most max_interval_width (100 W/m^2) wide, for every row and horizon,
\* whatever the offsets and whether the row is at night, in transition or
\* in daytime.
C2_Original ==
    /\ PredictReturned =>
          \A h \in Horizons : out.predictions[h].has_interval =>
              \A i \in Indices(args.X_new) :
                  QLe(QSub(out.predictions[h].upper[i], out.predictions[h].lower[i]),
                      QInt(DefaultMaxIntervalWidth))
    /\ FutureHoursReturned =>
          \A k \in Indices(out.future_predictions) :
              out.future_predictions[k].has_interval =>
                  QLe(QSub(out.future_predictions[k].upper_bound,
                           out.future_predictions[k].lower_bound),
                      QInt(DefaultMaxIntervalWidth))

\* 0 <= lower <= upper
WellFormed(lower, upper) == QLe(QZero, lower) /\ QLe(lower, upper)

NightHours(month) ==
    IF month \in 3..5 THEN (18..23) \cup (0..4) ELSE (18..23) \cup (0..5)

TransitionHours(month) == IF month \in 3..5 THEN {5, 17} ELSE {6, 17}

\* the regressor's own output for a row
RegressorOutput(h, row) == models_median[h][row.x]

\* C4: in predict and in predict_future_hours, when the target timestamp
\* (observation time + horizon) is at night by the seasonal rule, the point
\* estimate, the lower bound and the upper bound are all exactly 0, whatever
\* the regressor's output and the offsets.
C4_NightIsZero ==
    /\ (PredictReturned /\ HasDatetime(args.X_new)) =>
          \A h \in Horizons, i \in Indices(args.X_new) :
              LET t == AddHours(args.X_new[i].datetime, h)
              IN  t.hour \in NightHours(t.month) =>
                     /\ out.predictions[h].predicted[i] = QZero
                     /\ out.predictions[h].has_interval =>
                           /\ out.predictions[h].lower[i] = QZero
                           /\ out.predictions[h].upper[i] = QZero
    /\ (FutureHoursReturned /\ args.row.datetime /= NoDatetime) =>
          \A k \in Indices(out.future_predictions) :
              LET r == out.future_predictions[k]
                  t == AddHours(args.row.datetime, r.horizon)
              IN  t.hour \in NightHours(t.month) =>
                     /\ r.median = QZero
                     /\ r.has_interval
                     /\ r.lower_bound = QZero
                     /\ r.upper_bound = QZero

\* predict has returned for a row observed at 1 AM in August whose regressor
\* output for the horizon to 2 AM is 500 W/m^2, with offsets (-80, +80)
C4_Witness ==
    /\ PredictReturned
    /\ args.X_new = <<DatedRow(4, 8, 1, FALSE)>>
    /\ RegressorOutput(1, args.X_new[1]) = 500
    /\ 1 \in DOMAIN error_percentiles
    /\ error_percentiles[1] = <<QInt(-80), QInt(80)>>
    /\ out.predictions[1].predicted[1] = QZero
    /\ out.predictions[1].upper[1] = QZero

\* 0.3 * max(0, value)
DampedOnce(value) == QMul(QMax(QZero, value), <<3, 10>>)

\* C5 as stated: for a target timestamp in transition (and not at night),
\* point = 0.3 * max(0, p), lower = 0.3 * max(0, p + lower_offset) and
\* upper = 0.3 * max(0, p + upper_offset) for the regressor's output p, in
\* predict and (to the two decimals it rounds to) in predict_future_hours.
C5_Original ==
    /\ (PredictReturned /\ HasDatetime(args.X_new)) =>
          \A h \in Horizons, i \in Indices(args.X_new) :
              LET t == AddHours(args.X_new[i].datetime, h)
                  p == QInt(RegressorOutput(h, args.X_new[i]))
              IN  (t.hour \in TransitionHours(t.month) /\ t.hour \notin NightHours(t.month)) =>
                     /\ out.predictions[h].predicted[i] = DampedOnce(p)
                     /\ out.predictions[h].has_interval =>
                           /\ out.predictions[h].lower[i]
                                 = DampedOnce(QAdd(p, error_percentiles[h][1]))
                           /\ out.predictions[h].upper[i]
                                 = DampedOnce(QAdd(p, error_percentiles[h][2]))
    /\ (FutureHoursReturned /\ args.row.datetime /= NoDatetime) =>
          \A k \in Indices(out.future_predictions) :
              LET r == out.future_predictions[k]
                  t == AddHours(args.row.datetime, r.horizon)
                  p == QInt(RegressorOutput(r.horizon, args.row))
              IN  (t.hour \in TransitionHours(t.month) /\ t.hour \notin NightHours(t.month)) =>
                     /\ r.median = Round2(DampedOnce(p))
                     /\ r.has_interval =>
                           /\ r.lower_bound
                                 = Round2(DampedOnce(QAdd(p, error_percentiles[r.horizon][1])))
                           /\ r.upper_bound
                                 = Round2(DampedOnce(QAdd(p, error_percentiles[r.horizon][2])))

\* C6 as stated: in predict, a daytime row whose target hour is 12 in the
\* rainy season, with regressor output 500 W/m^2 and offsets (-80, +80), ends
\* with a width of at most 100 and with its lower bound moved toward the
\* point estimate by more than its upper bound.
C6_Original ==
    (PredictReturned /\ HasDatetime(args.X_new)) =>
        \A h \in Horizons, i \in Indices(args.X_new) :
            LET t == AddHours(args.X_new[i].datetime, h)
                lower == out.predictions[h].lower[i]
                upper == out.predictions[h].upper[i]
            IN  (/\ t.hour = 12 /\ t.month \in 6..11
                 /\ RegressorOutput(h, args.X_new[i]) = 500
                 /\ h \in DOMAIN error_percentiles
                 /\ error_percentiles[h] = <<QInt(-80), QInt(80)>>) =>
                    /\ QLe(QSub(upper, lower), QInt(100))
                    /\ QLt(QSub(QInt(580), upper), QSub(lower, QInt(420)))

\* C7 as stated: when the median model of a horizon is missing, predict,
\* predict_future_hours and calibrate_prediction_intervals skip that horizon,
\* return results for every horizon that has a model and raise no error.
C7_Original ==
    (/\ pc = "returned"
     /\ feature_columns /= None
     /\ DOMAIN models_median /= {} /\ DOMAIN models_median /= Horizons) =>
        /\ op = "predict" =>
              out.raised = None /\ DOMAIN out.predictions = DOMAIN models_median
        /\ op = "predict_future_hours" =>
              /\ out.raised = None
              /\ {out.future_predictions[k].horizon : k \in Indices(out.future_predictions)}
                    = DOMAIN models_median \cap (1..args.num_hours)
        /\ op = "calibrate_prediction_intervals" =>
              out.raised = None /\ DOMAIN out.horizons = DOMAIN models_median

SplitReturned == pc = "returned" /\ op = "split_time_series_data"

\* Series.max() / Series.min(): NaT on an empty partition, and every
\* comparison with NaT is False
NaT == 0
TsMax(s) == IF s = <<>> THEN NaT ELSE CHOOSE x \in Range(s) : \A y \in Range(s) : y <= x
TsMin(s) == IF s = <<>> THEN NaT ELSE CHOOSE x \in Range(s) : \A y \in Range(s) : x <= y
TsLt(a, b) == a /= NaT /\ b /= NaT /\ a < b

\* C8 as stated: for any table with distinct timestamps and any fractions,
\* max(train.timestamp) < min(val.timestamp) < min(test.timestamp).
C8_Original ==
    SplitReturned =>
        /\ TsLt(TsMax(out.train), TsMin(out.val))
        /\ TsLt(TsMin(out.val), TsMin(out.test))

\* C8 amended: every train timestamp is before every val timestamp and every
\* val timestamp before every test timestamp (and train before test), so
\* max(train) < min(val) < min(test) whenever the three partitions are
\* non-empty; a partition may be empty.
C8_SplitOrdered ==
    SplitReturned =>
        /\ \A a \in Range(out.train), b \in Range(out.val) : a < b
        /\ \A b \in Range(out.val), c \in Range(out.test) : b < c
        /\ \A a \in Range(out.train), c \in Range(out.test) : a < c
        /\ (out.train /= <<>> /\ out.val /= <<>> /\ out.test /= <<>>) =>
              /\ TsLt(TsMax(out.train), TsMin(out.val))
              /\ TsLt(TsMin(out.val), TsMin(out.test))

\* an unsorted table split into three non-empty partitions
C8_Witness ==
    /\ SplitReturned
    /\ out.train /= <<>> /\ out.val /= <<>> /\ out.test /= <<>>
    /\ \E i \in 1..(Len(args.data) - 1) : args.data[i] > args.data[i + 1]

PeakPreds(preds, hours) ==
    LET rows == SelectSeq([i \in Indices(hours) |-> i],
                          LAMBDA i : hours[i] >= 11 /\ hours[i] <= 13)
    IN  [k \in Indices(rows) |-> preds[rows[k]]]

\* the search of every calibrated horizon of a returned calibration
Searches == {out.horizons[h].search : h \in DOMAIN out.horizons}

\* C10 as stated: if no iterate of the search is accepted as better than the
\* starting point, optimize_interval_width returns exactly the initial
\* offsets.
C10_Original ==
    CalibrateReturned =>
        \A search \in Searches :
            ~search.accepted =>
                /\ search.best_lower = search.initial_lower
                /\ search.best_upper = search.initial_upper

\* C10 amended: if no iterate is accepted, optimize_interval_width returns
\* exactly the initial offsets provided the final pass over the peak hours
\* does not apply, that is, when no row is at a peak hour (or no timestamps
\* are given) or the mean width of the peak rows under the initial offsets
\* is at most max_width.
C10_FallsBackToInitial ==
    CalibrateReturned =>
        \A h \in DOMAIN out.horizons :
            LET search == out.horizons[h].search
                peak == PeakPreds(ModelPredict(models_median[h], args.frame.X),
                                  args.frame.hours)
            IN  (/\ ~search.accepted
                 /\ \/ peak = <<>>
                    \/ QLe(MeanWidthFrom(peak, <<search.initial_lower, search.initial_upper>>),
                           QInt(args.max_interval_width))) =>
                    /\ search.best_lower = search.initial_lower
                    /\ search.best_upper = search.initial_upper

\* a calibration without timestamps whose search for horizon 1 shrank its
\* iterates, accepted none and returned the initial offsets
C10_Witness ==
    /\ CalibrateReturned
    /\ args.frame = FramePlain
    /\ 1 \in DOMAIN out.horizons
    /\ ~out.horizons[1].search.accepted
    /\ out.horizons[1].search.shrinks > 0
    /\ out.horizons[1].search.best_lower = out.horizons[1].search.initial_lower

-----------------------------------------------------------------------------
(* Failing evaluations inside the optimization loop                        *)

\* the passes of a search in which an evaluation raised
RaisedPasses(search) == {search.log[k] : k \in Indices(search.log)}

\* C11: when the evaluation of a candidate or the re-evaluation at the end
\* of a pass raises inside optimize_interval_width, the search still returns
\* offsets (nothing propagates); a raising candidate is skipped: it is never
\* taken as the best adjustment and the other candidates of the grid are all
\* evaluated; a pass whose re-evaluation raised leaves the best offsets
\* unchanged; and the loop goes on: every later failing pass is reached, and
\* the loop ends only at max_iterations or on convergence.
C11_FailedEvaluationSkipped ==
    CalibrateReturned =>
        \A h \in DOMAIN out.horizons :
            LET search == out.horizons[h].search
            IN  /\ h \in DOMAIN error_percentiles
                /\ search.iterations = DefaultMaxIterations \/ search.converged
                /\ \A k \in args.raises.reevals :
                      k < search.iterations =>
                          \E e \in RaisedPasses(search) : e.iteration = k /\ e.reeval_raised
                /\ \A e \in RaisedPasses(search) :
                      /\ e.reeval_raised => e.best_after = e.best_before
                      /\ e.candidates_raised > 0 =>
                            /\ e.candidates_raised + e.candidates_evaluated = 100
                            /\ e.candidates_raised =
                                  Cardinality({f \in args.raises.candidates :
                                                  f[1] = e.iteration})
                            /\ \/ e.adjustment = <<0, 0>>
                               \/ <<e.iteration, e.adjustment[1], e.adjustment[2]>>
                                     \notin args.raises.candidates

\* a calibration has returned in which, for some horizon, candidates raised
\* in one pass, a re-evaluation raised after the offsets had moved, and a
\* later pass was still accepted as the best
C11_Witness ==
    /\ CalibrateReturned
    /\ \E h \in DOMAIN out.horizons :
          LET search == out.horizons[h].search
          IN  /\ \E e \in RaisedPasses(search) : e.candidates_raised > 0
              /\ \E e \in RaisedPasses(search) :
                    e.reeval_raised /\ e.iteration < search.iterations - 1
              /\ search.accepted
              /\ search.iterations = DefaultMaxIterations

-----------------------------------------------------------------------------
(* Who writes the calibration state                                        *)

calibration_state == <<error_percentiles, interval_widths, max_interval_widths>>

\* the methods that serve or evaluate with a calibrated forecaster
ServingMethods ==
    {"predict", "predict_future_hours", "evaluate_validation", "evaluate_models",
     "analyze_interval_widths_by_hour"}

\* C12: a step changes error_percentiles, interval_widths or
\* max_interval_widths only if it is a call of
\* calibrate_prediction_intervals or of load_models; after a call of
\* calibrate_prediction_intervals the three dictionaries hold exactly the
\* horizons that call calibrated, no earlier entry survives; and a call of
\* predict, predict_future_hours, evaluate_validation, evaluate_models or
\* analyze_interval_widths_by_hour leaves the calibration state and
\* models_median unchanged.
C12_CalibrationWriters ==
    [][/\ calibration_state' /= calibration_state =>
             /\ pc' = "returned"
             /\ op' \in {"calibrate_prediction_intervals", "load_models"}
       /\ (pc = "idle" /\ pc' = "returned" /\ op' = "calibrate_prediction_intervals") =>
             /\ DOMAIN error_percentiles' = DOMAIN out'.horizons
             /\ DOMAIN interval_widths' = DOMAIN out'.horizons
             /\ DOMAIN max_interval_widths' = DOMAIN out'.horizons
       /\ (pc = "idle" /\ pc' = "returned" /\ op' \in ServingMethods) =>
             /\ calibration_state' = calibration_state
             /\ models_median' = models_median]_vars

\* analyze_interval_widths_by_hour has returned statistics on a forecaster
\* whose offsets lack horizon 3: the median models came from a directory
\* whose persisted offsets had horizon 3, and a calibration without a model
\* for horizon 3 has since replaced them
C12_Witness ==
    /\ pc = "returned"
    /\ op = "analyze_interval_widths_by_hour"
    /\ out.has_stats
    /\ DOMAIN error_percentiles = Horizons \ {3}
    /\ DOMAIN max_interval_widths = Horizons \ {3}
    /\ DOMAIN models_median = Horizons \ {3}

-----------------------------------------------------------------------------
(* Persistence of the calibration state                                    *)

SaveReturned == ReturnedFrom("save_models") /\ out.returned

\* the forecaster holds calibration offsets and median models
IsCalibrated == DOMAIN error_percentiles /= {} /\ DOMAIN models_median /= {}

\* load_models on a fresh forecaster from the directory just written
Reloaded == load_models(FreshInstance, out.model_dir)

\* C13 as stated: after save_models(dir) has succeeded on a calibrated
\* forecaster, load_models(dir) on a fresh forecaster returns True and
\* restores the same offsets for every horizon, the same average widths
\* keyed by integer horizon, the same feature_columns and the same set of
\* horizons in models_median.
C13_Original ==
    (SaveReturned /\ IsCalibrated) =>
        /\ Reloaded.returned
        /\ Reloaded.instance.error_percentiles = error_percentiles
        /\ Reloaded.instance.interval_widths = interval_widths
        /\ Reloaded.instance.feature_columns = feature_columns
        /\ DOMAIN Reloaded.instance.models_median = DOMAIN models_median

-----------------------------------------------------------------------------
(* predict as a function of what it reads                                  *)

\* predict has returned, and an earlier call had the same median models,
\* the same offsets and the same rows
PredictRepeated ==
    /\ pc = "returned"
    /\ op = "predict"
    /\ earlier.called
    /\ earlier.models_median = models_median
    /\ earlier.error_percentiles = error_percentiles
    /\ earlier.X_new = args.X_new

\* two results of predict for a horizon hold the same point values and the
\* same bounds, or both no bounds
SameValues(a, b) ==
    /\ a.predicted = b.predicted
    /\ a.has_interval = b.has_interval
    /\ a.has_interval => (a.lower = b.lower /\ a.upper = b.upper)

-----------------------------------------------------------------------------
(* The scenario of normal residuals                                        *)

\* calibrate_prediction_intervals has returned for the frame of normal
\* residuals with a calibration of horizon 1
NormalCalibrated ==
    /\ CalibrateReturned
    /\ args.frame = FrameNormal
    /\ 1 \in DOMAIN out.horizons

\* the rows of the validation frame inside the interval stored for horizon h
ValidationCovered(frame, calibrated, h) ==
    {i \in Indices(frame.y[h]) :
        /\ QLe(calibrated.lower_bounds[i], QInt(frame.y[h][i]))
        /\ QLe(QInt(frame.y[h][i]), calibrated.upper_bounds[i])}

\* C15: on validation residuals like N(0, 20^2) with target_coverage 0.90 and
\* max_width 100, calibration returns offsets close to (-32.9, +32.9) (here:
\* each within 10 W/m^2 of the initial (-33, +33)), a validation coverage
\* within a few points of 90% (here: between 85% and 95%) and a mean width of
\* at most 100.
C15_Original ==
    NormalCalibrated =>
        LET calibrated == out.horizons[1]
            n == Len(args.frame.y[1])
            covered == Cardinality(ValidationCovered(args.frame, calibrated, 1))
        IN  /\ QLe(QInt(-43), calibrated.lower_percentile)
            /\ QLe(calibrated.lower_percentile, QInt(-23))
            /\ QLe(QInt(23), calibrated.upper_percentile)
            /\ QLe(calibrated.upper_percentile, QInt(43))
            /\ 85 * n <= 100 * covered
            /\ 100 * covered <= 95 * n
            /\ QLe(calibrated.avg_width, QInt(100))

-----------------------------------------------------------------------------
(* The shrink phase                                                        *)

\* the passes through the shrink branch of the searches of the calibration
\* that has returned, with the max_width of the search
ShrinkPasses ==
    IF ~CalibrateReturned THEN {}
    ELSE UNION {{[horizon |-> h, pass |-> out.horizons[h].search.shrunk[i],
                  max_width |-> args.max_interval_width] :
                    i \in 1..Len(out.horizons[h].search.shrunk)} :
                        h \in DOMAIN out.horizons}

\* upper_percentile - lower_percentile
Span(offsets) == QSub(offsets[2], offsets[1])

\* the new span is the old span times max_width / avg_width
SpanScaled(p) ==
    Span(p.pass.after) = QMul(Span(p.pass.before), QDiv(QInt(p.max_width), p.pass.avg_width))

\* both offsets moved toward each other by the same amount
MovedAlike(p) ==
    /\ QSub(p.pass.after[1], p.pass.before[1]) = QSub(p.pass.before[2], p.pass.after[2])
    /\ QLt(QZero, QSub(p.pass.after[1], p.pass.before[1]))

\* C20: every pass of optimize_interval_width that starts with avg_width >
\* max_width replaces the offsets so that the new span is the old span times
\* max_width / avg_width, in the symmetric and in the skew-based asymmetric
\* branch alike; in the symmetric branch both offsets move toward each other
\* by the same amount.
C20_Original ==
    \A p \in ShrinkPasses :
        /\ ~p.pass.nan
        /\ SpanScaled(p)
        /\ ~p.pass.asymmetric => MovedAlike(p)

-----------------------------------------------------------------------------
(* Feature engineering: floats, and the tabulated solar formulas           *)

\* A float of a data frame: a rational <<n, d>> with d > 0, or nan (a
\* missing value; NaT for a datetime), inf, -inf
NaN == <<0, 0>>
PosInf == <<1, 0>>
NegInf == <<-1, 0>>
IsNaN(x) == x = NaN
IsInf(x) == x[2] = 0 /\ x[1] /= 0
Sign(n) == IF n > 0 THEN 1 ELSE IF n < 0 THEN -1 ELSE 0

\* float arithmetic: nan propagates, x / 0 is inf or nan
FNeg(a) == <<-a[1], a[2]>>
FAdd(a, b) ==
    IF IsNaN(a) \/ IsNaN(b) THEN NaN
    ELSE IF IsInf(a) THEN (IF IsInf(b) /\ b /= a THEN NaN ELSE a)
    ELSE IF IsInf(b) THEN b
    ELSE QAdd(a, b)
FSub(a, b) == FAdd(a, FNeg(b))
FMul(a, b) ==
    IF IsNaN(a) \/ IsNaN(b) THEN NaN
    ELSE IF IsInf(a) \/ IsInf(b)
         THEN (IF a[1] = 0 \/ b[1] = 0 THEN NaN ELSE <<Sign(a[1]) * Sign(b[1]), 0>>)
    ELSE QMul(a, b)
FDiv(a, b) ==
    IF IsNaN(a) \/ IsNaN(b) THEN NaN
    ELSE IF IsInf(b) THEN (IF IsInf(a) THEN NaN ELSE QZero)
    ELSE IF b[1] = 0 THEN (IF a[1] = 0 THEN NaN ELSE <<Sign(a[1]), 0>>)
    ELSE IF IsInf(a) THEN <<Sign(a[1]) * Sign(b[1]), 0>>
    ELSE QDiv(a, b)
FAbs(a) == <<Abs(a[1]), a[2]>>

\* comparisons: False whenever an operand is nan
FLt(a, b) ==
    /\ ~IsNaN(a)
    /\ ~IsNaN(b)
    /\ IF a[2] = 0 /\ b[2] = 0 THEN a[1] < b[1] ELSE QLt(a, b)
FGt(a, b) == FLt(b, a)
FLe(a, b) == ~IsNaN(a) /\ ~IsNaN(b) /\ ~FLt(b, a)
FGe(a, b) == FLe(b, a)

\* np.clip(x, lo, hi): nan stays nan
FClip(x, lo, hi) ==
    IF IsNaN(x) THEN NaN ELSE IF FLt(x, lo) THEN lo ELSE IF FLt(hi, x) THEN hi ELSE x

\* x.fillna(value)
FFillna(x, value) == IF IsNaN(x) THEN value ELSE x

\* x.replace([np.inf, -np.inf], value)
ReplaceInf(x, value) == IF IsInf(x) THEN value ELSE x

\* np.sign(x)
FSign(x) == IF IsNaN(x) THEN NaN ELSE QInt(Sign(x[1]))

\* The rounding of a float operation: the model rounds to the nearest
\* multiple of 1/scale where the source rounds to the nearest double
Round(x, scale) ==
    IF x[2] = 0 THEN x
    ELSE LET whole == x[1] \div x[2]
             rest == x[1] % x[2]
         IN  QAdd(QInt(whole), Q((2 * rest * scale + x[2]) \div (2 * x[2]), scale))

RECURSIVE IsqrtBetween(_, _, _)
\* the largest r in lo..hi with r * r <= x, by halves
IsqrtBetween(x, lo, hi) ==
    IF lo >= hi THEN lo
    ELSE LET mid == (lo + hi + 1) \div 2
         IN  IF mid * mid <= x THEN IsqrtBetween(x, mid, hi) ELSE IsqrtBetween(x, lo, mid - 1)

\* np.sqrt of a non-negative rational, to one decimal (rounded toward 0)
Sqrt(x) == Q(IsqrtBetween((100 * x[1]) \div x[2], 0, 46340), 10)

\* the day of the year of the first day of the model's data
FirstDay == 88

\* solar_zenith_cos (lines 243-248) at the full hours 0..23 of the days
\* FirstDay .. FirstDay + 6 at the latitude of Davao City, in thousandths
SolarZenithCosTable ==
    <<
       <<-985, -951, -852, -695, -490, -250, 6, 263, 502, 707, 864, 963, 997, 963, 864, 707, 502, 263, 6, -250, -490, -695, -852, -951>>,
       <<-984, -950, -851, -694, -489, -250, 7, 263, 502, 708, 865, 964, 998, 964, 865, 708, 502, 263, 7, -250, -489, -694, -851, -950>>,
       <<-983, -949, -850, -693, -487, -249, 8, 264, 503, 708, 865, 964, 998, 964, 865, 708, 503, 264, 8, -249, -487, -693, -850, -949>>,
       <<-981, -948, -849, -691, -486, -248, 9, 265, 504, 709, 866, 965, 999, 965, 866, 709, 504, 265, 9, -248, -486, -691, -849, -948>>,
       <<-980, -946, -847, -690, -485, -247, 9, 266, 504, 709, 866, 965, 999, 965, 866, 709, 504, 266, 9, -247, -485, -690, -847, -946>>,
       <<-979, -945, -846, -689, -484, -246, 10, 266, 505, 710, 867, 966, 999, 966, 867, 710, 505, 266, 10, -246, -484, -689, -846, -945>>,
       <<-977, -943, -845, -688, -483, -245, 11, 267, 505, 710, 867, 966, 999, 966, 867, 710, 505, 267, 11, -245, -483, -688, -845, -943>>
    >>

\* the air mass of Kasten and Young, 1 / (c + 0.50572 * (96.07995 -
\* degrees(arccos(c))) ** -1.6364), for c = k/1000, k = 1..1000, in
\* hundredths (not used for c <= 0.01)
KastenYoungTable ==
    <<
       0, 0, 0, 0, 0, 0, 0, 0, 0, 0, 2990, 2930, 2871, 2814, 2759, 2706, 2654, 2604, 2555, 2508,
       2462, 2417, 2374, 2332, 2291, 2251, 2213, 2175, 2139, 2103, 2069, 2035, 2003, 1971, 1940, 1910, 1881, 1853, 1825, 1798,
       1772, 1746, 1721, 1696, 1673, 1649, 1627, 1605, 1583, 1562, 1542, 1521, 1502, 1483, 1464, 1446, 1428, 1410, 1393, 1376,
       1360, 1344, 1328, 1313, 1298, 1283, 1269, 1254, 1241, 1227, 1214, 1201, 1188, 1175, 1163, 1151, 1139, 1127, 1116, 1105,
       1094, 1083, 1073, 1062, 1052, 1042, 1032, 1022, 1013, 1004, 994, 985, 977, 968, 959, 951, 942, 934, 926, 918,
       911, 903, 895, 888, 881, 874, 866, 859, 853, 846, 839, 833, 826, 820, 814, 807, 801, 795, 789, 784,
       778, 772, 766, 761, 756, 750, 745, 740, 734, 729, 724, 719, 714, 710, 705, 700, 696, 691, 686, 682,
       678, 673, 669, 665, 660, 656, 652, 648, 644, 640, 636, 632, 629, 625, 621, 617, 614, 610, 607, 603,
       600, 596, 593, 589, 586, 583, 579, 576, 573, 570, 567, 564, 561, 558, 555, 552, 549, 546, 543, 540,
       537, 534, 532, 529, 526, 524, 521, 518, 516, 513, 511, 508, 506, 503, 501, 498, 496, 493, 491, 489,
       486, 484, 482, 480, 477, 475, 473, 471, 469, 466, 464, 462, 460, 458, 456, 454, 452, 450, 448, 446,
       444, 442, 440, 438, 437, 435, 433, 431, 429, 427, 426, 424, 422, 420, 419, 417, 415, 414, 412, 410,
       409, 407, 405, 404, 402, 401, 399, 397, 396, 394, 393, 391, 390, 388, 387, 385, 384, 382, 381, 380,
       378, 377, 375, 374, 373, 371, 370, 369, 367, 366, 365, 363, 362, 361, 359, 358, 357, 356, 354, 353,
       352, 351, 350, 348, 347, 346, 345, 344, 342, 341, 340, 339, 338, 337, 336, 335, 333, 332, 331, 330,
       329, 328, 327, 326, 325, 324, 323, 322, 321, 320, 319, 318, 317, 316, 315, 314, 313, 312, 311, 310,
       309, 308, 307, 306, 305, 304, 303, 303, 302, 301, 300, 299, 298, 297, 296, 295, 295, 294, 293, 292,
       291, 290, 289, 289, 288, 287, 286, 285, 285, 284, 283, 282, 281, 281, 280, 279, 278, 278, 277, 276,
       275, 275, 274, 273, 272, 272, 271, 270, 269, 269, 268, 267, 267, 266, 265, 264, 264, 263, 262, 262,
       261, 260, 260, 259, 258, 258, 257, 256, 256, 255, 254, 254, 253, 253, 252, 251, 251, 250, 249, 249,
       248, 248, 247, 246, 246, 245, 245, 244, 243, 243, 242, 242, 241, 240, 240, 239, 239, 238, 238, 237,
       236, 236, 235, 235, 234, 234, 233, 233, 232, 232, 231, 231, 230, 229, 229, 228, 228, 227, 227, 226,
       226, 225, 225, 224, 224, 223, 223, 222, 222, 221, 221, 220, 220, 219, 219, 219, 218, 218, 217, 217,
       216, 216, 215, 215, 214, 214, 213, 213, 213, 212, 212, 211, 211, 210, 210, 209, 209, 209, 208, 208,
       207, 207, 206, 206, 206, 205, 205, 204, 204, 203, 203, 203, 202, 202, 201, 201, 201, 200, 200, 199,
       199, 199, 198, 198, 197, 197, 197, 196, 196, 196, 195, 195, 194, 194, 194, 193, 193, 193, 192, 192,
       191, 191, 191, 190, 190, 190, 189, 189, 189, 188, 188, 188, 187, 187, 186, 186, 186, 185, 185, 185,
       184, 184, 184, 183, 183, 183, 182, 182, 182, 181, 181, 181, 180, 180, 180, 179, 179, 179, 179, 178,
       178, 178, 177, 177, 177, 176, 176, 176, 175, 175, 175, 174, 174, 174, 174, 173, 173, 173, 172, 172,
       172, 171, 171, 171, 171, 170, 170, 170, 169, 169, 169, 169, 168, 168, 168, 167, 167, 167, 167, 166,
       166, 166, 166, 165, 165, 165, 164, 164, 164, 164, 163, 163, 163, 163, 162, 162, 162, 162, 161, 161,
       161, 161, 160, 160, 160, 159, 159, 159, 159, 158, 158, 158, 158, 157, 157, 157, 157, 157, 156, 156,
       156, 156, 155, 155, 155, 155, 154, 154, 154, 154, 153, 153, 153, 153, 152, 152, 152, 152, 152, 151,
       151, 151, 151, 150, 150, 150, 150, 149, 149, 149, 149, 149, 148, 148, 148, 148, 148, 147, 147, 147,
       147, 146, 146, 146, 146, 146, 145, 145, 145, 145, 145, 144, 144, 144, 144, 144, 143, 143, 143, 143,
       142, 142, 142, 142, 142, 141, 141, 141, 141, 141, 140, 140, 140, 140, 140, 140, 139, 139, 139, 139,
       139, 138, 138, 138, 138, 138, 137, 137, 137, 137, 137, 136, 136, 136, 136, 136, 136, 135, 135, 135,
       135, 135, 134, 134, 134, 134, 134, 134, 133, 133, 133, 133, 133, 132, 132, 132, 132, 132, 132, 131,
       131, 131, 131, 131, 131, 130, 130, 130, 130, 130, 130, 129, 129, 129, 129, 129, 129, 128, 128, 128,
       128, 128, 128, 127, 127, 127, 127, 127, 127, 126, 126, 126, 126, 126, 126, 126, 125, 125, 125, 125,
       125, 125, 124, 124, 124, 124, 124, 124, 124, 123, 123, 123, 123, 123, 123, 122, 122, 122, 122, 122,
       122, 122, 121, 121, 121, 121, 121, 121, 121, 120, 120, 120, 120, 120, 120, 120, 119, 119, 119, 119,
       119, 119, 119, 118, 118, 118, 118, 118, 118, 118, 117, 117, 117, 117, 117, 117, 117, 116, 116, 116,
       116, 116, 116, 116, 116, 115, 115, 115, 115, 115, 115, 115, 114, 114, 114, 114, 114, 114, 114, 114,
       113, 113, 113, 113, 113, 113, 113, 113, 112, 112, 112, 112, 112, 112, 112, 112, 111, 111, 111, 111,
       111, 111, 111, 111, 110, 110, 110, 110, 110, 110, 110, 110, 109, 109, 109, 109, 109, 109, 109, 109,
       109, 108, 108, 108, 108, 108, 108, 108, 108, 107, 107, 107, 107, 107, 107, 107, 107, 107, 106, 106,
       106, 106, 106, 106, 106, 106, 106, 105, 105, 105, 105, 105, 105, 105, 105, 105, 104, 104, 104, 104,
       104, 104, 104, 104, 104, 103, 103, 103, 103, 103, 103, 103, 103, 103, 103, 102, 102, 102, 102, 102,
       102, 102, 102, 102, 101, 101, 101, 101, 101, 101, 101, 101, 101, 101, 100, 100, 100, 100, 100, 100
    >>

\* transmittance ** air_mass_adjusted for the air mass of c = k/1000,
\* k = 1..1000, in ten-thousandths (not used for c <= 0.01)
TransmittancePowerTable ==
    <<
       0, 0, 0, 0, 0, 0, 0, 0, 0, 0, 10, 10, 10, 10, 10, 10, 10, 10, 10, 10,
       10, 10, 10, 10, 10, 10, 10, 10, 10, 10, 10, 10, 10, 10, 10, 10, 10, 10, 10, 10,
       10, 10, 10, 10, 10, 10, 10, 10, 10, 10, 10, 10, 10, 10, 10, 10, 10, 10, 10, 10,
       10, 10, 10, 10, 10, 10, 10, 10, 10, 10, 10, 10, 10, 10, 10, 10, 10, 10, 10, 11,
       11, 12, 13, 14, 15, 16, 17, 18, 19, 20, 22, 24, 27, 30, 33, 36, 40, 44, 48, 52,
       57, 62, 67, 72, 78, 84, 90, 97, 104, 111, 119, 127, 135, 144, 152, 162, 171, 181, 191, 202,
       213, 224, 235, 247, 259, 272, 284, 298, 311, 325, 339, 353, 368, 383, 398, 413, 429, 445, 462, 478,
       495, 512, 530, 547, 565, 583, 602, 620, 639, 658, 678, 697, 717, 737, 757, 777, 798, 818, 839, 860,
       881, 902, 924, 945, 967, 989, 1011, 1033, 1055, 1078, 1100, 1123, 1145, 1168, 1191, 1214, 1237, 1260, 1283, 1307,
       1330, 1353, 1377, 1400, 1424, 1447, 1471, 1495, 1518, 1542, 1566, 1590, 1614, 1638, 1661, 1685, 1709, 1733, 1757, 1781,
       1805, 1829, 1853, 1877, 1901, 1925, 1948, 1972, 1996, 2020, 2044, 2068, 2091, 2115, 2139, 2162, 2186, 2210, 2233, 2257,
       2280, 2303, 2327, 2350, 2373, 2397, 2420, 2443, 2466, 2489, 2512, 2535, 2558, 2581, 2603, 2626, 2649, 2671, 2694, 2716,
       2739, 2761, 2783, 2805, 2827, 2849, 2871, 2893, 2915, 2937, 2959, 2980, 3002, 3023, 3045, 3066, 3087, 3108, 3129, 3151,
       3171, 3192, 3213, 3234, 3255, 3275, 3296, 3316, 3336, 3357, 3377, 3397, 3417, 3437, 3457, 3477, 3497, 3516, 3536, 3555,
       3575, 3594, 3613, 3633, 3652, 3671, 3690, 3709, 3728, 3746, 3765, 3784, 3802, 3820, 3839, 3857, 3875, 3893, 3912, 3929,
       3947, 3965, 3983, 4001, 4018, 4036, 4053, 4071, 4088, 4105, 4122, 4139, 4156, 4173, 4190, 4207, 4224, 4240, 4257, 4274,
       4290, 4306, 4323, 4339, 4355, 4371, 4387, 4403, 4419, 4435, 4450, 4466, 4482, 4497, 4513, 4528, 4543, 4559, 4574, 4589,
       4604, 4619, 4634, 4649, 4664, 4678, 4693, 4708, 4722, 4737, 4751, 4766, 4780, 4794, 4808, 4822, 4836, 4850, 4864, 4878,
       4892, 4906, 4919, 4933, 4947, 4960, 4974, 4987, 5000, 5014, 5027, 5040, 5053, 5066, 5079, 5092, 5105, 5118, 5130, 5143,
       5156, 5168, 5181, 5193, 5206, 5218, 5231, 5243, 5255, 5267, 5279, 5291, 5303, 5315, 5327, 5339, 5351, 5363, 5374, 5386,
       5398, 5409, 5421, 5432, 5444, 5455, 5466, 5478, 5489, 5500, 5511, 5522, 5533, 5544, 5555, 5566, 5577, 5588, 5599, 5609,
       5620, 5631, 5641, 5652, 5662, 5673, 5683, 5693, 5704, 5714, 5724, 5734, 5745, 5755, 5765, 5775, 5785, 5795, 5805, 5814,
       5824, 5834, 5844, 5853, 5863, 5873, 5882, 5892, 5901, 5911, 5920, 5930, 5939, 5948, 5958, 5967, 5976, 5985, 5994, 6003,
       6013, 6022, 6031, 6040, 6048, 6057, 6066, 6075, 6084, 6092, 6101, 6110, 6118, 6127, 6136, 6144, 6153, 6161, 6170, 6178,
       6186, 6195, 6203, 6211, 6220, 6228, 6236, 6244, 6252, 6260, 6268, 6276, 6284, 6292, 6300, 6308, 6316, 6324, 6332, 6339,
       6347, 6355, 6363, 6370, 6378, 6385, 6393, 6401, 6408, 6416, 6423, 6430, 6438, 6445, 6453, 6460, 6467, 6474, 6482, 6489,
       6496, 6503, 6510, 6518, 6525, 6532, 6539, 6546, 6553, 6560, 6567, 6573, 6580, 6587, 6594, 6601, 6608, 6614, 6621, 6628,
       6634, 6641, 6648, 6654, 6661, 6668, 6674, 6681, 6687, 6694, 6700, 6706, 6713, 6719, 6726, 6732, 6738, 6744, 6751, 6757,
       6763, 6769, 6776, 6782, 6788, 6794, 6800, 6806, 6812, 6818, 6824, 6830, 6836, 6842, 6848, 6854, 6860, 6866, 6872, 6877,
       6883, 6889, 6895, 6901, 6906, 6912, 6918, 6923, 6929, 6935, 6940, 6946, 6951, 6957, 6962, 6968, 6973, 6979, 6984, 6990,
       6995, 7001, 7006, 7011, 7017, 7022, 7027, 7033, 7038, 7043, 7049, 7054, 7059, 7064, 7069, 7075, 7080, 7085, 7090, 7095,
       7100, 7105, 7110, 7115, 7120, 7125, 7130, 7135, 7140, 7145, 7150, 7155, 7160, 7165, 7169, 7174, 7179, 7184, 7189, 7194,
       7198, 7203, 7208, 7212, 7217, 7222, 7227, 7231, 7236, 7240, 7245, 7250, 7254, 7259, 7263, 7268, 7272, 7277, 7282, 7286,
       7290, 7295, 7299, 7304, 7308, 7313, 7317, 7321, 7326, 7330, 7334, 7339, 7343, 7347, 7352, 7356, 7360, 7364, 7369, 7373,
       7377, 7381, 7386, 7390, 7394, 7398, 7402, 7406, 7410, 7414, 7419, 7423, 7427, 7431, 7435, 7439, 7443, 7447, 7451, 7455,
       7459, 7463, 7467, 7471, 7475, 7478, 7482, 7486, 7490, 7494, 7498, 7502, 7505, 7509, 7513, 7517, 7521, 7524, 7528, 7532,
       7536, 7539, 7543, 7547, 7551, 7554, 7558, 7562, 7565, 7569, 7573, 7576, 7580, 7583, 7587, 7591, 7594, 7598, 7601, 7605,
       7608, 7612, 7615, 7619, 7622, 7626, 7629, 7633, 7636, 7640, 7643, 7647, 7650, 7653, 7657, 7660, 7664, 7667, 7670, 7674,
       7677, 7680, 7684, 7687, 7690, 7694, 7697, 7700, 7704, 7707, 7710, 7713, 7717, 7720, 7723, 7726, 7729, 7733, 7736, 7739,
       7742, 7745, 7748, 7752, 7755, 7758, 7761, 7764, 7767, 7770, 7773, 7777, 7780, 7783, 7786, 7789, 7792, 7795, 7798, 7801,
       7804, 7807, 7810, 7813, 7816, 7819, 7822, 7825, 7828, 7831, 7834, 7836, 7839, 7842, 7845, 7848, 7851, 7854, 7857, 7860,
       7862, 7865, 7868, 7871, 7874, 7877, 7879, 7882, 7885, 7888, 7891, 7893, 7896, 7899, 7902, 7904, 7907, 7910, 7913, 7915,
       7918, 7921, 7923, 7926, 7929, 7932, 7934, 7937, 7940, 7942, 7945, 7947, 7950, 7953, 7955, 7958, 7961, 7963, 7966, 7968,
       7971, 7974, 7976, 7979, 7981, 7984, 7986, 7989, 7991, 7994, 7997, 7999, 8002, 8004, 8007, 8009, 8012, 8014, 8016, 8019,
       8021, 8024, 8026, 8029, 8031, 8034, 8036, 8038, 8041, 8043, 8046, 8048, 8051, 8053, 8055, 8058, 8060, 8062, 8065, 8067,
       8069, 8072, 8074, 8076, 8079, 8081, 8083, 8086, 8088, 8090, 8093, 8095, 8097, 8100, 8102, 8104, 8106, 8109, 8111, 8113,
       8115, 8118, 8120, 8122, 8124, 8126, 8129, 8131, 8133, 8135, 8137, 8140, 8142, 8144, 8146, 8148, 8151, 8153, 8155, 8157,
       8159, 8161, 8163, 8166, 8168, 8170, 8172, 8174, 8176, 8178, 8180, 8182, 8184, 8187, 8189, 8191, 8193, 8195, 8197, 8199,
       8201, 8203, 8205, 8207, 8209, 8211, 8213, 8215, 8217, 8219, 8221, 8223, 8225, 8227, 8229, 8231, 8233, 8235, 8237, 8239,
       8241, 8243, 8245, 8247, 8249, 8251, 8253, 8255, 8257, 8259, 8260, 8262, 8264, 8266, 8268, 8270, 8272, 8274, 8276, 8278
    >>

\* the eccentricity correction of Spencer for the days 1..366 of the year,
\* in ten-thousandths
EccentricityTable ==
    <<
       10350, 10351, 10351, 10351, 10351, 10350, 10350, 10350, 10349, 10348, 10347, 10347, 10346, 10344, 10343, 10342, 10340, 10339, 10337, 10335,
       10334, 10332, 10330, 10327, 10325, 10323, 10320, 10318, 10315, 10312, 10309, 10306, 10303, 10300, 10297, 10294, 10290, 10287, 10283, 10279,
       10276, 10272, 10268, 10264, 10260, 10256, 10251, 10247, 10243, 10238, 10234, 10229, 10224, 10220, 10215, 10210, 10205, 10200, 10195, 10190,
       10185, 10180, 10174, 10169, 10164, 10158, 10153, 10148, 10142, 10136, 10131, 10125, 10120, 10114, 10108, 10102, 10097, 10091, 10085, 10079,
       10073, 10068, 10062, 10056, 10050, 10044, 10038, 10032, 10026, 10020, 10014, 10009, 10003, 9997, 9991, 9985, 9979, 9973, 9967, 9962,
       9956, 9950, 9944, 9938, 9933, 9927, 9921, 9916, 9910, 9904, 9899, 9893, 9888, 9882, 9877, 9872, 9866, 9861, 9856, 9851,
       9846, 9841, 9836, 9831, 9826, 9821, 9816, 9811, 9807, 9802, 9797, 9793, 9788, 9784, 9780, 9776, 9771, 9767, 9763, 9759,
       9755, 9752, 9748, 9744, 9741, 9737, 9734, 9730, 9727, 9724, 9721, 9718, 9715, 9712, 9709, 9706, 9704, 9701, 9699, 9696,
       9694, 9692, 9690, 9688, 9686, 9684, 9682, 9680, 9679, 9677, 9676, 9675, 9673, 9672, 9671, 9670, 9669, 9669, 9668, 9667,
       9667, 9667, 9666, 9666, 9666, 9666, 9666, 9666, 9666, 9667, 9667, 9668, 9668, 9669, 9670, 9671, 9672, 9673, 9674, 9675,
       9677, 9678, 9680, 9681, 9683, 9685, 9687, 9689, 9691, 9693, 9695, 9698, 9700, 9702, 9705, 9708, 9710, 9713, 9716, 9719,
       9722, 9725, 9729, 9732, 9735, 9739, 9742, 9746, 9750, 9754, 9757, 9761, 9765, 9769, 9774, 9778, 9782, 9786, 9791, 9795,
       9800, 9804, 9809, 9814, 9818, 9823, 9828, 9833, 9838, 9843, 9848, 9853, 9858, 9864, 9869, 9874, 9880, 9885, 9890, 9896,
       9901, 9907, 9913, 9918, 9924, 9929, 9935, 9941, 9947, 9952, 9958, 9964, 9970, 9976, 9981, 9987, 9993, 9999, 10005, 10011,
       10017, 10023, 10029, 10035, 10040, 10046, 10052, 10058, 10064, 10070, 10076, 10081, 10087, 10093, 10099, 10105, 10110, 10116, 10122, 10127,
       10133, 10138, 10144, 10149, 10155, 10160, 10166, 10171, 10176, 10181, 10187, 10192, 10197, 10202, 10207, 10212, 10216, 10221, 10226, 10231,
       10235, 10240, 10244, 10248, 10253, 10257, 10261, 10265, 10269, 10273, 10277, 10281, 10284, 10288, 10291, 10295, 10298, 10301, 10304, 10307,
       10310, 10313, 10316, 10318, 10321, 10323, 10326, 10328, 10330, 10332, 10334, 10336, 10338, 10339, 10341, 10342, 10344, 10345, 10346, 10347,
       10348, 10348, 10349, 10350, 10350, 10350
    >>

-----------------------------------------------------------------------------
(* Feature engineering: the columns added to a data frame.  A data frame   *)
(* is the sequence of its rows in order, a row a record of floats; the     *)
(* column GHI is self.target_column ('GHI - W/m^2'), datetime counts the   *)
(* hours since 00:00 of the first day.                                     *)

\* a data frame with n rows, each computed once
Frame(n, row(_)) == SubSeq([i \in 1..n |-> row(i)], 1, n)

\* df[column].shift(k) at row i
Shifted(df, column, k, i) == IF i - k \in 1..Len(df) THEN df[i - k][column] ELSE NaN

\* the rows j of lo..hi, within the frame, whose column is not nan
Valid(df, column, lo, hi) == {j \in lo..hi : j \in 1..Len(df) /\ ~IsNaN(df[j][column])}

RECURSIVE FSumOver(_, _, _)
\* the sum of a column over the rows S
FSumOver(df, column, S) ==
    IF S = {} THEN QZero
    ELSE LET j == CHOOSE x \in S : \A y \in S : x <= y
         IN  FAdd(df[j][column], FSumOver(df, column, S \ {j}))

\* the mean of a column over the rows S that are not nan; nan if there is none
MeanOver(df, column, S) ==
    LET valid == {j \in S : ~IsNaN(df[j][column])}
    IN  IF valid = {} THEN NaN
        ELSE FDiv(FSumOver(df, column, valid), QInt(Cardinality(valid)))

\* df[column].rolling(window, min_periods=1).mean() at row i
RollingMean(df, column, window, i) == MeanOver(df, column, (i - window + 1)..i \cap 1..Len(df))

\* df[column].rolling(window, min_periods=1).max() at row i
RollingMax(df, column, window, i) ==
    LET valid == Valid(df, column, i - window + 1, i)
    IN  IF valid = {} THEN NaN
        ELSE df[CHOOSE j \in valid : \A k \in valid : FLe(df[k][column], df[j][column])][column]

\* df[column].rolling(3).std() at row i: the sample standard deviation of
\* the last three values, nan unless all three are there.  The values are
\* whole numbers: 3 * sum(x^2) - sum(x)^2 is 6 times the variance.
RollingStd3(df, column, i) ==
    IF Cardinality(Valid(df, column, i - 2, i)) < 3 THEN NaN
    ELSE LET x(j) == df[j][column][1]
             sum == x(i) + x(i - 1) + x(i - 2)
             squares == x(i) * x(i) + x(i - 1) * x(i - 1) + x(i - 2) * x(i - 2)
         IN  Sqrt(Q(3 * squares - sum * sum, 6))

\* self.solar_constant
solar_constant == 1361

\* solar_zenith_cos for a day of the data and an hour
SolarZenithCos(day, hour) == Q(SolarZenithCosTable[day + 1][hour + 1], 1000)

\* add_solar_position_features for one row with a datetime column: the
\* columns that the later steps read, and those that are arithmetic in the
\* hour.  declination, solar_zenith_angle, solar_elevation and
\* sunrise_sunset_proximity are left out: like day_of_year they are
\* functions of the row's datetime alone and nan exactly for NaT.
SolarPosition(row) ==
    LET nat == IsNaN(row.datetime)
        day == row.datetime[1] \div 24
        hour == row.datetime[1] % 24
        hour_angle == IF nat THEN NaN ELSE QInt((hour - 12) * 15)
        solar_zenith_cos == IF nat THEN NaN ELSE SolarZenithCos(day, hour)
        hours_from_sunrise ==
            IF FLt(hour_angle, QZero)
            THEN FDiv(FAbs(FAdd(hour_angle, QInt(90))), QInt(15))
            ELSE FDiv(FAbs(FSub(hour_angle, QInt(270))), QInt(15))
    IN  [day_of_year |-> IF nat THEN NaN ELSE QInt(FirstDay + day),
         hour_angle |-> hour_angle,
         solar_zenith_cos |-> solar_zenith_cos,
         is_daylight |-> QInt(IF FGt(solar_zenith_cos, <<1, 100>>) THEN 1 ELSE 0),
         hours_from_sunrise |-> hours_from_sunrise,
         is_transition |-> QInt(IF FLt(hours_from_sunrise, QInt(1)) THEN 1 ELSE 0),
         is_sunrise_sunset |-> QInt(IF FGt(solar_zenith_cos, QZero)
                                       /\ FLt(solar_zenith_cos, <<3, 10>>) THEN 1 ELSE 0)]

\* add_solar_position_features(df)
add_solar_position_features(df) == Frame(Len(df), LAMBDA i : SolarPosition(df[i]) @@ df[i])

\* the air_mass column: the formula of Kasten and Young where
\* solar_zenith_cos > 0.01, nan elsewhere, and nan for solar_zenith_cos <= 0
AirMass(solar_zenith_cos) ==
    LET kasten_young == IF FGt(solar_zenith_cos, <<1, 100>>)
                        THEN Q(KastenYoungTable[solar_zenith_cos[1] * (1000 \div solar_zenith_cos[2])], 100)
                        ELSE NaN
    IN  IF FLe(solar_zenith_cos, QZero) THEN NaN ELSE kasten_young

\* the transmittance column: 0.8277 - 0.0322 * (air_mass - 1) where air_mass
\* is there, nan filled with 0, clipped to [0.5, 0.85]
Transmittance(air_mass) ==
    LET dynamic == IF ~IsNaN(air_mass)
                   THEN FSub(<<8277, 10000>>, FMul(<<322, 10000>>, FSub(air_mass, QInt(1))))
                   ELSE NaN
    IN  FClip(FFillna(dynamic, QZero), <<1, 2>>, <<85, 100>>)

\* eccentricity for a day_of_year
Eccentricity(day_of_year) ==
    IF IsNaN(day_of_year) THEN NaN ELSE Q(EccentricityTable[day_of_year[1]], 10000)

\* air_mass_adjusted: nan filled with 5.0, clipped to [0, 10]
AirMassAdjusted(air_mass) == FClip(FFillna(air_mass, QInt(5)), QZero, QInt(10))

\* df['transmittance'] ** df['air_mass_adjusted'] of a row: 0.5 ** 5 where
\* air_mass is nan, and the tabulated power for the row's solar_zenith_cos
\* elsewhere
TransmittancePower(solar_zenith_cos, air_mass) ==
    IF IsNaN(solar_zenith_cos) THEN NaN
    ELSE IF IsNaN(air_mass) THEN <<1, 32>>
    ELSE Q(TransmittancePowerTable[solar_zenith_cos[1] * (1000 \div solar_zenith_cos[2])], 10000)

\* max_expected_ghi
max_expected_ghi == 1500

\* df.loc[df['solar_zenith_cos'] <= 0, 'clear_sky_ghi'] = 0
ZeroAtNight(solar_zenith_cos, clear_sky_ghi) ==
    IF FLe(solar_zenith_cos, QZero) THEN QZero ELSE clear_sky_ghi

\* np.where(solar_zenith_cos > 0, solar_constant * eccentricity *
\* solar_zenith_cos * transmittance ** air_mass_adjusted, 0): the product is
\* computed for every row
ClearSkyProduct(solar_zenith_cos, eccentricity, power) ==
    Round(FMul(Round(FMul(Round(FMul(QInt(solar_constant), eccentricity), 100),
                          solar_zenith_cos), 100),
               power), 100)

\* a clear sky irradiance without the constraints
UnconstrainedClearSkyGhi(solar_zenith_cos, eccentricity, power) ==
    ClearSkyProduct(solar_zenith_cos, eccentricity, power)

\* the clear_sky_ghi column: the product where solar_zenith_cos > 0, then
\* the constraints (0 at night, no negative value) and the clip to
\* [0, max_expected_ghi]
ClearSkyGhi(solar_zenith_cos, eccentricity, power) ==
    LET product == ClearSkyProduct(solar_zenith_cos, eccentricity, power)
        chosen == IF FGt(solar_zenith_cos, QZero) THEN product ELSE QZero
        night == ZeroAtNight(solar_zenith_cos, chosen)
        positive == IF FLt(night, QZero) THEN QZero ELSE night
    IN  FClip(positive, QZero, QInt(max_expected_ghi))

\* an index without the clip
UnclippedClearSkyIndex(GHI, clear_sky_ghi) ==
    IF FGt(clear_sky_ghi, QInt(10)) THEN Round(FDiv(GHI, clear_sky_ghi), 1000) ELSE QZero

\* the clear_sky_index column: measured / clear_sky_ghi where clear_sky_ghi
\* > 10 and 0 elsewhere, clipped to [0, 1.5], infinities replaced by 0
ClearSkyIndex(GHI, clear_sky_ghi) ==
    LET ratio == Round(FDiv(GHI, clear_sky_ghi), 1000)
        chosen == IF FGt(clear_sky_ghi, QInt(10)) THEN ratio ELSE QZero
    IN  ReplaceInf(FClip(chosen, QZero, <<3, 2>>), QZero)

\* the columns of calculate_clear_sky_ghi that are computed row by row
ClearSky(row) ==
    LET air_mass == AirMass(row.solar_zenith_cos)
        clear_sky_ghi == ClearSkyGhi(row.solar_zenith_cos, Eccentricity(row.day_of_year),
                                     TransmittancePower(row.solar_zenith_cos, air_mass))
    IN  [air_mass |-> air_mass,
         transmittance |-> Transmittance(air_mass),
         air_mass_adjusted |-> AirMassAdjusted(air_mass),
         clear_sky_ghi |-> clear_sky_ghi,
         clear_sky_index |-> ClearSkyIndex(row.GHI, clear_sky_ghi)]

\* calculate_clear_sky_ghi(df): the row-wise columns, then the three lags
\* of clear_sky_index
calculate_clear_sky_ghi(df) ==
    With(Frame(Len(df), LAMBDA i : ClearSky(df[i]) @@ df[i]),
         LAMBDA sky :
            Frame(Len(sky), LAMBDA i :
                [clear_sky_index_lag_1 |-> Shifted(sky, "clear_sky_index", 1, i),
                 clear_sky_index_lag_2 |-> Shifted(sky, "clear_sky_index", 2, i),
                 clear_sky_index_lag_3 |-> Shifted(sky, "clear_sky_index", 3, i)] @@ sky[i]))

\* the hour of a row's datetime (df['datetime'].dt.hour), nan for NaT
HourOf(row) == IF IsNaN(row.datetime) THEN NaN ELSE QInt(row.datetime[1] % 24)

\* nonzero_mask of add_trend_features: the previous row's GHI is > 10
NonzeroMask(df, i) == FGt(Shifted(df, "GHI", 1, i), QInt(10))

\* df.loc[nonzero_mask, target_column].shift(1) at a row i of the mask: the
\* shift is taken within the selected rows, so this is the GHI of the
\* selected row before i, nan for the first selected row
MaskedShift(df, i) ==
    LET before == {j \in 1..(i - 1) : NonzeroMask(df, j)}
    IN  IF before = {} THEN NaN
        ELSE df[CHOOSE j \in before : \A k \in before : k <= j].GHI

\* add_trend_features(df), first part: the columns computed from GHI
TrendChange(df, i) ==
    LET ghi_change_1h == FSub(df[i].GHI, Shifted(df, "GHI", 1, i))
        hour == HourOf(df[i])
        morning == FGe(hour, QInt(6)) /\ FLe(hour, QInt(11))
        evening == FGe(hour, QInt(13)) /\ FLe(hour, QInt(18))
        yesterday_ghi == Shifted(df, "GHI", 24, i)
    IN  [ghi_change_1h |-> ghi_change_1h,
         ghi_change_pct |-> IF NonzeroMask(df, i)
                            THEN FMul(FDiv(ghi_change_1h, MaskedShift(df, i)), QInt(100))
                            ELSE QZero,
         morning_change |-> IF morning THEN ghi_change_1h ELSE QZero,
         evening_change |-> IF evening THEN ghi_change_1h ELSE QZero,
         ghi_trend |-> FSign(ghi_change_1h),
         ghi_variability_3h |-> RollingStd3(df, "GHI", i),
         yesterday_ghi |-> yesterday_ghi,
         yesterday_similarity |-> FAbs(FSub(df[i].GHI, yesterday_ghi)),
         clear_sky_deviation |-> FSub(df[i].GHI, df[i].clear_sky_ghi)]

\* add_trend_features(df): ghi_acceleration is the diff of ghi_change_1h
add_trend_features(df) ==
    With(Frame(Len(df), LAMBDA i : TrendChange(df, i) @@ df[i]),
         LAMBDA trend :
            Frame(Len(trend), LAMBDA i :
                [ghi_acceleration |-> FSub(trend[i].ghi_change_1h,
                                           Shifted(trend, "ghi_change_1h", 1, i))] @@ trend[i]))

\* the rows of the group of row i in df.groupby('hour'), in order; a row
\* without an hour is in no group
HourGroup(df, i) ==
    IF IsNaN(HourOf(df[i])) THEN {} ELSE {j \in 1..Len(df) : HourOf(df[j]) = HourOf(df[i])}

\* rolling(min_periods=1, window=5, center=True).mean() of clear_sky_index
\* within the group of row i: the mean over the row, the two rows of the
\* group before it and the two rows of the group after it
CenteredMean(df, group, i) ==
    LET position(j) == Cardinality({k \in group : k <= j})
        window == {j \in group : position(j) \in (position(i) - 2)..(position(i) + 2)}
    IN  MeanOver(df, "clear_sky_index", window)

\* smooth_kt of row i: the centered rolling mean for a group of at least 5
\* rows, nan filled with the mean of clear_sky_index over the whole group,
\* then with 0
SmoothKt(df, i) ==
    LET group == HourGroup(df, i)
        rolled == IF Cardinality(group) >= 5 THEN CenteredMean(df, group, i) ELSE NaN
        hour_means == MeanOver(df, "clear_sky_index", group)
    IN  FFillna(ReplaceInf(FFillna(rolled, hour_means), NaN), QZero)

\* add_diurnal_decomposition(df): hour, smooth_kt and stochastic_kt, then
\* the three lags of stochastic_kt
add_diurnal_decomposition(df) ==
    With(Frame(Len(df), LAMBDA i :
            With(SmoothKt(df, i),
                 LAMBDA smooth_kt :
                    [hour |-> HourOf(df[i]),
                     smooth_kt |-> smooth_kt,
                     stochastic_kt |-> FClip(FSub(df[i].clear_sky_index, smooth_kt),
                                             QInt(-1), QInt(1))] @@ df[i])),
         LAMBDA diurnal :
            Frame(Len(diurnal), LAMBDA i :
                [stochastic_kt_lag_1 |-> Shifted(diurnal, "stochastic_kt", 1, i),
                 stochastic_kt_lag_2 |-> Shifted(diurnal, "stochastic_kt", 2, i),
                 stochastic_kt_lag_3 |-> Shifted(diurnal, "stochastic_kt", 3, i)] @@ diurnal[i]))

\* df.sort_values('datetime'): NaT last
SortedByTime(df) ==
    SortSeq(df, LAMBDA a, b : ~IsNaN(a.datetime)
                                /\ (IsNaN(b.datetime) \/ a.datetime[1] < b.datetime[1]))

\* the names of the lag columns
LagNames == <<"GHI_lag_1", "GHI_lag_2", "GHI_lag_3">>

\* the columns GHI_lag_1 .. GHI_lag_{lag_hours} of row i
LagColumns(df, lag_hours, i) ==
    [name \in {LagNames[k] : k \in 1..lag_hours} |->
        Shifted(df, "GHI", CHOOSE k \in 1..lag_hours : LagNames[k] = name, i)]

\* the lagged and rolling columns of create_features
LaggedAndRolling(df, lag_hours) ==
    Frame(Len(df), LAMBDA i :
        [GHI_rolling_mean_6h |-> RollingMean(df, "GHI", 6, i),
         GHI_rolling_max_24h |-> RollingMax(df, "GHI", 24, i)]
        @@ LagColumns(df, lag_hours, i) @@ df[i])

\* self.target_columns: the name of the target of each horizon
target_columns == <<"target_GHI_1h", "target_GHI_2h", "target_GHI_3h", "target_GHI_4h">>

\* the target columns of create_features: target_GHI_{h}h = GHI.shift(-h)
Targets(df) ==
    Frame(Len(df), LAMBDA i :
        [target_GHI_1h |-> Shifted(df, "GHI", -1, i),
         target_GHI_2h |-> Shifted(df, "GHI", -2, i),
         target_GHI_3h |-> Shifted(df, "GHI", -3, i),
         target_GHI_4h |-> Shifted(df, "GHI", -4, i)] @@ df[i])

\* the rows of df.iloc[start:stop], as positions 1..Len(df): a negative
\* bound counts from the end
IlocRows(df, start, stop) ==
    LET n == Len(df)
        from == IF start < 0 THEN (IF n + start < 0 THEN 0 ELSE n + start)
                ELSE IF start > n THEN n ELSE start
        to == IF stop < 0 THEN (IF n + stop < 0 THEN 0 ELSE n + stop)
              ELSE IF stop > n THEN n ELSE stop
    IN  (from + 1)..to

\* a dropna that drops nothing
NothingMissing(row) == FALSE

\* a row has a missing value in some column
HasNaN(row) == \E column \in DOMAIN row : IsNaN(row[column])

\* every column of the frame that create_features builds, before rows are
\* removed
AllFeatures(data, lag_hours) ==
    With(LaggedAndRolling(SortedByTime(data), lag_hours), LAMBDA lagged :
    With(add_solar_position_features(lagged), LAMBDA solar :
    With(calculate_clear_sky_ghi(solar), LAMBDA sky :
    With(add_trend_features(sky), LAMBDA trend :
    With(add_diurnal_decomposition(trend), LAMBDA diurnal : Targets(diurnal))))))

\* create_features(data, lag_hours): the rows min_row .. max_row - 1
\* without missing values, in order; position is the place of the row in
\* the time-sorted input (counted from 1)
create_features(data, lag_hours) ==
    With(AllFeatures(data, lag_hours),
         LAMBDA df :
            LET min_row == lag_hours
                max_row == Len(df) - (CHOOSE h \in Horizons : \A g \in Horizons : g <= h)
                kept == {i \in IlocRows(df, min_row, max_row) : ~HasNaN(df[i])}
                place(k) == CHOOSE i \in kept : Cardinality({j \in kept : j <= i}) = k
            IN  Frame(Cardinality(kept), LAMBDA k : [position |-> QInt(place(k))] @@ df[place(k)]))

-----------------------------------------------------------------------------
(* Feature engineering: the data and the calls                             *)

\* the number of hourly rows of a data set
MaxRows == 120

\* GHI over the hours 0..23 of a day
DailyProfile ==
    <<0, 0, 0, 0, 0, 0, 3, 90, 330, 540, 700, 800, 840, 800, 700, 540, 330, 90, 3, 0, 0, 0, 0, 0>>

\* the data after load_data and preprocess_data: one row for each hour from
\* 00:00 of the first day on, sorted, with a GHI that is lower from day to day
BaseData ==
    Frame(MaxRows, LAMBDA i :
        LET p == DailyProfile[((i - 1) % 24) + 1]
        IN  [datetime |-> QInt(i - 1),
             GHI |-> QInt(IF p > 20 THEN p - 15 * ((i - 1) \div 24) ELSE p)])

\* the data with another GHI in row k
Changed(data, k, value) == [data EXCEPT ![k].GHI = value]

\* the data with the rows a and b in each other's place
Swapped(data, a, b) == [data EXCEPT ![a] = data[b], ![b] = data[a]]

\* the rows whose GHI is changed, and the values it is changed to: a
\* missing measurement, an overcast hour and a clear one
ChangedRows == {k \in 1..MaxRows : k % 24 \in {8, 9, 13, 19} \/ k > MaxRows - 6 \/ k < 3}
ChangedValues == {NaN, QInt(0), QInt(900)}

\* the data sets create_features is called with
FeatureSeries ==
    {BaseData, Swapped(BaseData, 40, 41), Swapped(BaseData, 1, MaxRows),
     SubSeq(BaseData, 1, 30), SubSeq(BaseData, 1, 4)}
    \cup {Changed(BaseData, k, value) : k \in ChangedRows, value \in ChangedValues}

\* the rows of the frames calculate_clear_sky_ghi is called with: no
\* timestamp, night, a sun barely up (with and without an air mass), morning
\* and noon; a missing, negative, zero, low, usual and very high GHI
SkyTimes == {NaN, QInt(0), QInt(6), QInt(7), QInt(12), QInt(150)}
SkyGHI == {NaN, QInt(-5), QInt(0), QInt(8), QInt(400), QInt(2000)}
SkyRows == {[datetime |-> t, GHI |-> g] : t \in SkyTimes, g \in SkyGHI}
SkyMorning == [datetime |-> QInt(7), GHI |-> QInt(60)]
SkyNoon == {[datetime |-> QInt(12), GHI |-> g] : g \in {NaN, QInt(2000)}}
SkyFrames == {<<r>> : r \in SkyRows} \cup {<<r, SkyMorning, s>> : r \in SkyRows, s \in SkyNoon}

\* data = add_solar_position_features(data)
\* data = calculate_clear_sky_ghi(data)
CalculateClearSkyGhi(data) ==
    /\ pc = "idle"
    /\ pc' = "returned"
    /\ op' = "calculate_clear_sky_ghi"
    /\ args' = [data |-> data]
    /\ out' = [raised |-> None, df |-> calculate_clear_sky_ghi(add_solar_position_features(data))]
    /\ UNCHANGED <<self_vars, earlier>>

\* create_features(data, lag_hours); self.target_columns, the list of the
\* four target names, is not kept
CreateFeatures(data, lag_hours) ==
    /\ pc = "idle"
    /\ pc' = "returned"
    /\ op' = "create_features"
    /\ args' = [data |-> data, lag_hours |-> lag_hours]
    /\ out' = [raised |-> None, df |-> create_features(data, lag_hours)]
    /\ UNCHANGED <<self_vars, earlier>>

InitFeatures == Constructed

NextFeatures ==
    \/ \E data \in SkyFrames : CalculateClearSkyGhi(data)
    \/ \E data \in FeatureSeries, lag_hours \in {3} : CreateFeatures(data, lag_hours)
    \/ Return

SpecFeatures == InitFeatures /\ [][NextFeatures]_vars


-----------------------------------------------------------------------------
(* Properties of the clear sky columns                                     *)

\* the rows of the frame that calculate_clear_sky_ghi or create_features
\* has returned
FeatureRows ==
    IF pc = "returned" /\ op \in {"calculate_clear_sky_ghi", "create_features"}
    THEN {out.df[i] : i \in 1..Len(out.df)}
    ELSE {}

\* what the clear sky index of a row is said to be: 0 for clear_sky_ghi <=
\* 10, else measured / clear_sky_ghi clipped to [0, 1.5]
IndexRule(row) ==
    IF FLe(row.clear_sky_ghi, QInt(10)) THEN row.clear_sky_index = QZero
    ELSE row.clear_sky_index
            = FClip(Round(FDiv(row.GHI, row.clear_sky_ghi), 1000), QZero, <<3, 2>>)

\* C16 as stated: for every row produced by calculate_clear_sky_ghi,
\* clear_sky_index lies in [0, 1.5]; it is 0 whenever clear_sky_ghi <= 10 and
\* otherwise measured irradiance / clear_sky_ghi clipped to [0, 1.5].
C16_Original ==
    \A row \in FeatureRows :
        /\ FLe(QZero, row.clear_sky_index)
        /\ FLe(row.clear_sky_index, <<3, 2>>)
        /\ IndexRule(row)

\* C16, amended: for every row produced by calculate_clear_sky_ghi whose
\* measured irradiance is not missing, clear_sky_index lies in [0, 1.5], is
\* 0 whenever clear_sky_ghi <= 10 and is otherwise measured / clear_sky_ghi
\* clipped to [0, 1.5]; for a row whose irradiance is missing it is 0
\* whenever clear_sky_ghi <= 10 and missing otherwise.
C16_ClearSkyIndex ==
    \A row \in FeatureRows :
        /\ ~IsNaN(row.GHI) =>
              /\ FLe(QZero, row.clear_sky_index)
              /\ FLe(row.clear_sky_index, <<3, 2>>)
              /\ IndexRule(row)
        /\ IsNaN(row.GHI) =>
              row.clear_sky_index = (IF FLe(row.clear_sky_ghi, QInt(10)) THEN QZero ELSE NaN)

\* calculate_clear_sky_ghi has returned a frame with a row of positive
\* irradiance under a clear sky irradiance of at most 10, a row whose ratio
\* is within the clip, a row whose ratio is cut to 1.5 or to 0, or a row
\* without irradiance under a clear sky
C16_Witness ==
    /\ pc = "returned"
    /\ op = "calculate_clear_sky_ghi"
    /\ \E row \in FeatureRows :
          /\ FLe(row.clear_sky_ghi, QInt(10))
          /\ FGt(row.GHI, QZero)
    /\ \E row \in FeatureRows :
          /\ FGt(row.clear_sky_ghi, QInt(10))
          /\ FGt(row.clear_sky_index, QZero)
          /\ FLt(row.clear_sky_index, <<3, 2>>)
    /\ \E row \in FeatureRows :
          /\ FGt(row.clear_sky_ghi, QInt(10))
          /\ \/ FGt(row.GHI, FMul(<<3, 2>>, row.clear_sky_ghi))
             \/ FLt(row.GHI, QZero)
             \/ IsNaN(row.GHI)

\* C17: for every row, clear_sky_ghi is exactly 0 whenever solar_zenith_cos
\* <= 0 and lies in [0, 1500] otherwise.
C17_ClearSkyGhiRange ==
    \A row \in FeatureRows :
        IF FLe(row.solar_zenith_cos, QZero)
        THEN row.clear_sky_ghi = QZero
        ELSE FLe(QZero, row.clear_sky_ghi) /\ FLe(row.clear_sky_ghi, QInt(1500))

\* calculate_clear_sky_ghi has returned a frame with a night row and a row
\* with the sun up and a positive clear sky irradiance
C17_Witness ==
    /\ pc = "returned"
    /\ op = "calculate_clear_sky_ghi"
    /\ \E row \in FeatureRows : FLt(row.solar_zenith_cos, QZero)
    /\ \E row \in FeatureRows :
          FGt(row.solar_zenith_cos, QZero) /\ FGt(row.clear_sky_ghi, QZero)

-----------------------------------------------------------------------------
(* Properties of create_features                                           *)

CreateFeaturesReturned == ReturnedFrom("create_features") /\ out.raised = None

\* C18: every row returned by create_features has all lag features and all
\* horizon targets defined; its target_GHI_{h}h is the irradiance of the row
\* h positions later in the time-sorted input; the first lag_hours rows and
\* the last max(horizon) rows of the series, and any row with a missing
\* value, are never returned.
C18_FeatureRows ==
    CreateFeaturesReturned =>
        LET sorted == SortedByTime(args.data)
            n == Len(sorted)
        IN  \A k \in 1..Len(out.df) :
               LET row == out.df[k]
                   p == row.position[1]
               IN  /\ p \in (args.lag_hours + 1)..(n - 4)
                   /\ row.datetime = sorted[p].datetime
                   /\ row.GHI = sorted[p].GHI
                   /\ \A lag \in 1..args.lag_hours :
                         /\ ~IsNaN(row[LagNames[lag]])
                         /\ row[LagNames[lag]] = sorted[p - lag].GHI
                   /\ \A h \in Horizons :
                         /\ ~IsNaN(row[target_columns[h]])
                         /\ row[target_columns[h]] = sorted[p + h].GHI
                   /\ \A column \in DOMAIN row : ~IsNaN(row[column])
                   /\ \A j \in 1..Len(out.df) : j < k => out.df[j].position[1] < p

\* create_features has returned rows for data that was not sorted or that
\* has a missing irradiance in a row of the day between the first lag_hours
\* and the last four rows
C18_Witness ==
    /\ CreateFeaturesReturned
    /\ Len(out.df) > 0
    /\ \/ SortedByTime(args.data) /= args.data
       \/ \E p \in (args.lag_hours + 1)..(Len(args.data) - 4) :
             /\ IsNaN(args.data[p].GHI)
             /\ FGt(SolarZenithCos((p - 1) \div 24, (p - 1) % 24), <<1, 100>>)

\* create_features(BaseData, 3)
BaseFeatures == create_features(BaseData, 3)

\* the columns that are not targets
IsFeature(column) == \A h \in Horizons : column /= target_columns[h]

\* the rows of data that differ from the rows of BaseData
ChangedIn(data) == {k \in 1..Len(data) : data[k] /= BaseData[k]}

\* C19: every non-target feature of a row built by create_features depends
\* only on observations at or before the row's timestamp: changing
\* observations later than a row does not change the row's features.
C19_Original ==
    (/\ CreateFeaturesReturned
     /\ args.lag_hours = 3
     /\ Len(args.data) = Len(BaseData)
     /\ \A k \in 1..Len(args.data) : args.data[k].datetime = BaseData[k].datetime)
    => \A i \in 1..Len(out.df), j \in 1..Len(BaseFeatures) :
          (/\ out.df[i].position = BaseFeatures[j].position
           /\ \A k \in ChangedIn(args.data) : out.df[i].position[1] < k)
          => \A column \in DOMAIN out.df[i] :
                IsFeature(column) => out.df[i][column] = BaseFeatures[j][column]

-----------------------------------------------------------------------------
(* Properties of the trend features                                        *)

\* C26: ghi_change_pct is non-zero only for rows whose immediately
\* preceding row has irradiance > 10, and for those rows it is 100 *
\* (irradiance - previous irradiance) / previous irradiance; the column
\* never contains an infinite or undefined value.
C26_Original ==
    CreateFeaturesReturned =>
        LET sorted == SortedByTime(args.data)
        IN  \A k \in 1..Len(out.df) :
               LET row == out.df[k]
                   previous == sorted[row.position[1] - 1].GHI
               IN  /\ ~IsNaN(row.ghi_change_pct)
                   /\ ~IsInf(row.ghi_change_pct)
                   /\ row.ghi_change_pct /= QZero => FGt(previous, QInt(10))
                   /\ FGt(previous, QInt(10)) =>
                         row.ghi_change_pct
                            = FMul(FDiv(FSub(row.GHI, previous), previous), QInt(100))

-----------------------------------------------------------------------------
(* Properties of the search of one calibration                             *)

\* C22: the search run for each horizon by
\* calibrate_prediction_intervals(..., max_iterations=k) performs at most k
\* shrink/expand iterations.
C22_Original ==
    CalibrateReturned => \A search \in Searches : search.iterations <= args.max_iterations

\* the mean width was within 0.5 of max_width after the last pass and after
\* the pass before it (a search with more iterations than passes in its
\* trace has repeated its last pass, which changed nothing)
WidthStable(search) ==
    LET n == Len(search.trace)
    IN  \/ search.iterations > n
        \/ /\ n >= 2
           /\ ~search.trace[n - 1].nan
           /\ WidthConverged(search.trace[n - 1].m_after, search.max_width)

\* C23: optimize_interval_width leaves its loop early only when the mean
\* width has stayed within 0.5 W/m^2 of max_width for several consecutive
\* iterations; one iteration with |avg_width - max_width| < 0.5 is not
\* enough to stop.
C23_Original ==
    CalibrateReturned =>
        \A search \in Searches : search.converged => WidthStable(search)

-----------------------------------------------------------------------------
(* The search called on its own                                            *)

\* median_preds, actual and the hours of the timestamps of a call: the
\* predictions and targets of a horizon of a validation frame
SearchData ==
    {[median_preds |-> ModelPredict(FittedRegressors[h], frame.X),
      actual |-> frame.y[h], hours |-> frame.hours] : frame \in Frames, h \in Horizons}
    \cup {[median_preds |-> ModelPredict(FittedRegressors[1], FrameLadder.X),
           actual |-> FrameLadder.y[1], hours |-> FrameLadder.hours]}

\* the percentiles of the errors that calibrate_prediction_intervals starts
\* from for a target coverage
InitialPercentiles(data, target_coverage) ==
    LET errors == [i \in Indices(data.median_preds) |-> data.actual[i] - data.median_preds[i]]
        alpha100 == AlphaPercent(target_coverage)
    IN  <<Percentile(errors, alpha100), Percentile(errors, QSub(QInt(100), alpha100))>>

\* initial_lower, initial_upper of a call: the percentiles for a target of
\* 80 and of 90 percent, a narrow pair and, where it cuts no lower bound at
\* 0, a wide one
SearchInitials(data) ==
    {InitialPercentiles(data, 80), InitialPercentiles(data, 90), <<QInt(-10), QInt(10)>>}
    \cup (IF \A i \in Indices(data.median_preds) : data.median_preds[i] >= 200
          THEN {<<QInt(-200), QInt(200)>>} ELSE {})

\* target_coverage (in percent), max_width and max_iterations of a call
TargetCoverages == {80, 95}
MaxWidths == {60, 100}
MaxIterations == {3, DefaultMaxIterations}

\* optimize_interval_width(median_preds, actual, initial_lower,
\* initial_upper, target_coverage, max_width, max_iterations, timestamps):
\* the call returns best_lower, best_upper; the record kept for it also has
\* what the search went through
OptimizeIntervalWidth(data, initial, target_coverage, max_width, max_iterations, const_skew, raises) ==
    /\ pc = "idle"
    /\ pc' = "returned"
    /\ op' = "optimize_interval_width"
    /\ args' = [data |-> data, initial |-> initial, target_coverage |-> target_coverage,
                max_width |-> max_width, max_iterations |-> max_iterations,
                const_skew |-> const_skew, raises |-> raises]
    /\ out' = [raised |-> None,
               search |-> optimize_interval_width(data.median_preds, data.actual,
                                                  initial[1], initial[2], target_coverage,
                                                  max_width, max_iterations, data.hours,
                                                  const_skew, raises)]
    /\ UNCHANGED <<self_vars, earlier>>

\* the failures that are tried with the limits of a call
SearchFailures(target_coverage, max_width, max_iterations) ==
    IF target_coverage = 80 /\ max_width = 100 /\ max_iterations = DefaultMaxIterations
    THEN EvaluationFailures ELSE {NoFailure}

InitSearch == Constructed

NextSearch ==
    \/ \E data \in SearchData, target_coverage \in TargetCoverages, max_width \in MaxWidths :
          \E initial \in SearchInitials(data), max_iterations \in MaxIterations :
             \E const_skew \in (IF data.hours = <<>> THEN {"zero"} ELSE {"zero", "nan"}) :
                \E raises \in SearchFailures(target_coverage, max_width, max_iterations) :
                   OptimizeIntervalWidth(data, initial, target_coverage, max_width,
                                         max_iterations, const_skew, raises)
    \/ Return

SpecSearch == InitSearch /\ [][NextSearch]_vars

\* the search of a call of optimize_interval_width that has returned
Searched == IF ReturnedFrom("optimize_interval_width") THEN {out.search} ELSE {}

-----------------------------------------------------------------------------
(* Properties of optimize_interval_width                                   *)

\* the passes of a search through the expand branch
ExpandPasses(search) ==
    {search.trace[i] : i \in {i \in 1..Len(search.trace) :
                                 ~search.trace[i].shrink /\ ~search.trace[i].nan}}

\* the candidate (lower - a, upper + b) of a pass for the grid steps a and b
CandidateOf(pass, a, b) ==
    <<QSub(pass.before[1], GridStep(a)), QAdd(pass.before[2], GridStep(b))>>

\* the metrics of a pair of offsets on the data of the call
MetricsOf(offsets) ==
    evaluate_percentiles(args.data.median_preds, args.data.actual,
                         PeakSolarTimes(args.data.hours), offsets[1], offsets[2])

\* a pair of offsets has a mean width within max_width, covers more rows
\* than covered and, when there are peak rows, has a peak width within
\* max_width
Qualifies(offsets, covered) ==
    LET m == MetricsOf(offsets)
    IN  /\ WidthWithin(m, args.max_width)
        /\ m.covered > covered
        /\ PeakSolarTimes(args.data.hours) /= {} => ~PeakWidthExceeds(m, args.max_width)

\* C21: in the expand phase the offsets are changed only to a candidate
\* (lower - a, upper + b) of the 10-step grid over [0, 5] whose mean width
\* is <= max_width, whose coverage is strictly higher than the best coverage
\* found so far and, with peak-solar data, whose peak-solar mean width is <=
\* max_width; if no candidate qualifies the offsets are left unchanged.
C21_ExpandAccepts ==
    \A search \in Searched : \A pass \in ExpandPasses(search) :
        /\ \E a \in 0..9, b \in 0..9 :
              /\ pass.after = CandidateOf(pass, a, b)
              /\ pass.after /= pass.before =>
                    Qualifies(pass.after, pass.best_covered_before)
        /\ (\A a \in 0..9, b \in 0..9 :
               ~Qualifies(CandidateOf(pass, a, b), pass.best_covered_before))
           => pass.after = pass.before

\* a search has moved the offsets to a candidate in one pass and has left
\* them in another although a candidate of the grid, too wide, covers more
\* rows
C21_Witness ==
    \E search \in Searched :
        /\ \E pass \in ExpandPasses(search) : pass.after /= pass.before
        /\ \E pass \in ExpandPasses(search) :
              /\ pass.after = pass.before
              /\ \E a \in 0..9, b \in 0..9 :
                    LET m == MetricsOf(CandidateOf(pass, a, b))
                    IN  /\ m.covered > pass.best_covered_before
                        /\ ~WidthWithin(m, args.max_width)

\* the offsets that a search has evaluated, with their metrics: the initial
\* ones and those at the end of every pass whose re-evaluation succeeded
EvaluatedIterates(search) ==
    {[offsets |-> args.initial, m |-> search.m_initial]}
    \cup {[offsets |-> search.trace[i].after, m |-> search.trace[i].m_after] :
            i \in {i \in 1..Len(search.trace) :
                     search.trace[i].evaluated /\ ~search.trace[i].nan}}

\* the evaluated offsets whose mean width is within max_width
WithinWidth(search) ==
    {iterate \in EvaluatedIterates(search) : WidthWithin(iterate.m, args.max_width)}

\* C24 as stated: when the pointwise peak pass does not fire, the offsets
\* returned are those of the iterate with the highest coverage among the
\* evaluated offsets whose mean width is <= max_width; in particular they
\* satisfy the width constraint whenever an evaluated iterate does.
C24_Original ==
    \A search \in Searched :
        (~search.pointwise /\ WithinWidth(search) /= {}) =>
            \E iterate \in WithinWidth(search) :
                /\ iterate.offsets = <<search.best_lower, search.best_upper>>
                /\ \A other \in WithinWidth(search) : other.m.covered <= iterate.m.covered

\* the peak rows of the call (hours 11 to 13)
PeakRows == PeakSolarTimes(args.data.hours)

\* the bounds of row i under a pair of offsets: max(0, pred + lower) and
\* max(lower bound, pred + upper)
RowBounds(offsets, i) ==
    LET lower == QMax(QZero, QAdd(QInt(args.data.median_preds[i]), offsets[1]))
    IN  <<lower, QMax(lower, QAdd(QInt(args.data.median_preds[i]), offsets[2]))>>

\* the bounds of a peak row after the final pass: a row wider than max_width
\* is [mid - 0.6 * max_width, mid + 0.4 * max_width] when its prediction
\* exceeds 300 and [mid - 0.4 * max_width, mid + 0.6 * max_width] otherwise
ResetBounds(offsets, i) ==
    LET bounds == RowBounds(offsets, i)
        mid == QDiv(QAdd(bounds[1], bounds[2]), QInt(2))
        share == IF args.data.median_preds[i] > 300 THEN <<6, 4>> ELSE <<4, 6>>
    IN  IF QLe(QSub(bounds[2], bounds[1]), QInt(args.max_width)) THEN bounds
        ELSE <<QSub(mid, Q(share[1] * args.max_width, 10)),
               QAdd(mid, Q(share[2] * args.max_width, 10))>>

\* the mean over the peak rows of bound - prediction, for the lower (1) or
\* the upper (2) bound after the final pass
PeakMean(offsets, side) ==
    LET rows == SortSeq(SubSeq([k \in 1..Cardinality(PeakRows) |->
                                   CHOOSE i \in PeakRows :
                                      Cardinality({j \in PeakRows : j < i}) = k - 1],
                               1, Cardinality(PeakRows)),
                        LAMBDA a, b : a < b)
        parts == [k \in 1..Len(rows) |->
                     QSub(ResetBounds(offsets, rows[k])[side],
                          QInt(args.data.median_preds[rows[k]]))]
    IN  QDiv(QSumTo(parts, Len(rows)), QInt(Len(rows)))

\* C25: if, after the loop, the peak-solar mean width at the best offsets
\* still exceeds max_width, one final pass resets every peak-time row wider
\* than max_width to width exactly max_width around its own midpoint, split
\* 60/40 when the prediction exceeds 300 and 40/60 otherwise, and returns as
\* offsets the means over the peak rows of lower - pred and upper - pred;
\* the returned span is then <= max_width and no further iteration runs.
C25_PointwisePass ==
    \A search \in Searched :
        (PeakRows /= {} /\ PeakWidthExceeds(MetricsOf(search.searched), args.max_width)) =>
            /\ search.pointwise
            /\ \A i \in PeakRows :
                  LET before == RowBounds(search.searched, i)
                      after == ResetBounds(search.searched, i)
                  IN  IF QLt(QInt(args.max_width), QSub(before[2], before[1]))
                      THEN QSub(after[2], after[1]) = QInt(args.max_width)
                      ELSE after = before
            /\ search.best_lower = PeakMean(search.searched, 1)
            /\ search.best_upper = PeakMean(search.searched, 2)
            /\ QLe(QSub(search.best_upper, search.best_lower), QInt(args.max_width))
            /\ search.iterations = Len(search.trace) \/ search.iterations = args.max_iterations
               \/ search.converged

\* the final pass has reset a peak row with a prediction above 300 and a peak
\* row with a prediction of at most 300
C25_Witness ==
    \E search \in Searched :
        /\ search.pointwise
        /\ \E i \in PeakRows, j \in PeakRows :
              /\ args.data.median_preds[i] > 300
              /\ args.data.median_preds[j] <= 300
              /\ ResetBounds(search.searched, i) /= RowBounds(search.searched, i)
              /\ ResetBounds(search.searched, j) /= RowBounds(search.searched, j)

\* the passes of a search from the first one that starts with a mean width
\* (avg_width, as the loop tests it) within max_width
PassesFromWithin(search) ==
    {j \in 1..Len(search.trace) :
        \E i \in 1..j : /\ ~search.trace[i].nan
                        /\ WidthWithin(search.trace[i].m_before, args.max_width)}

\* C27: once an iteration starts with mean width <= max_width, every later
\* iteration takes the expand branch: the mean width stays <= max_width, the
\* lower offset never increases, the upper offset never decreases and the
\* coverage never decreases.
C27_PhaseMonotone ==
    \A search \in Searched : \A j \in PassesFromWithin(search) :
        LET pass == search.trace[j]
        IN  /\ ~pass.shrink
            /\ ~pass.nan
            /\ WidthWithin(pass.m_before, args.max_width)
            /\ WidthWithin(pass.m_after, args.max_width)
            /\ WidthWithin(MetricsOf(pass.after), args.max_width)
            /\ QLe(pass.after[1], pass.before[1])
            /\ QLe(pass.before[2], pass.after[2])
            /\ pass.m_after.covered >= pass.m_before.covered
            /\ MetricsOf(pass.after).covered >= MetricsOf(pass.before).covered
            /\ j > 1 => /\ pass.before = search.trace[j - 1].after
                        /\ pass.m_before = search.trace[j - 1].m_after

\* a search has widened both offsets and gained coverage in two passes after
\* a pass that started with a mean width within max_width
C27_Witness ==
    \E search \in Searched : \E j \in PassesFromWithin(search) : \E k \in PassesFromWithin(search) :
        /\ j < k
        /\ \A p \in {j, k} :
              /\ QLt(search.trace[p].after[1], search.trace[p].before[1])
              /\ QLt(search.trace[p].before[2], search.trace[p].after[2])
              /\ search.trace[p].m_after.covered > search.trace[p].m_before.covered

\* the offsets the call would have returned with another target_coverage
ReturnedWithTarget(target_coverage) ==
    LET search == optimize_interval_width(args.data.median_preds, args.data.actual,
                                          args.initial[1], args.initial[2], target_coverage,
                                          args.max_width, args.max_iterations,
                                          args.data.hours, args.const_skew, args.raises)
    IN  <<search.best_lower, search.best_upper>>

\* C28: the offsets that optimize_interval_width returns do not depend on
\* target_coverage: the same call with another target returns the same
\* offsets.
C28_TargetUnused ==
    \A search \in Searched : \A target_coverage \in TargetCoverages \ {args.target_coverage} :
        ReturnedWithTarget(target_coverage) = <<search.best_lower, search.best_upper>>

\* a search has accepted a better iterate although the best coverage had
\* already reached the target_coverage of the call
C28_Witness ==
    \E search \in Searched : \E i \in 1..Len(search.trace) :
        /\ search.trace[i].best_after /= search.trace[i].best_before
        /\ 100 * search.trace[i].best_covered_before
              >= args.target_coverage * Len(args.data.actual)
        /\ <<search.best_lower, search.best_upper>> /= search.trace[i].best_before

\* the passes of a search that accepted their iterate as the best one
AcceptingPasses(search) ==
    {i \in 1..Len(search.trace) : search.trace[i].best_after /= search.trace[i].best_before}

\* C29: the final pointwise pass replaces the offsets only when the best
\* offsets are still the initial ones: an iterate accepted as best inside
\* the loop has a peak-solar mean width <= max_width, so offsets found by
\* the search are never discarded by the final pass.
C29_PointwiseOnlyInitial ==
    \A search \in Searched :
        /\ \A i \in AcceptingPasses(search) :
              /\ search.trace[i].best_after = search.trace[i].after
              /\ PeakRows /= {} =>
                    ~PeakWidthExceeds(MetricsOf(search.trace[i].best_after), args.max_width)
        /\ search.pointwise =>
              /\ AcceptingPasses(search) = {}
              /\ search.searched = args.initial
        /\ <<search.best_lower, search.best_upper>> /= search.searched =>
              search.searched = args.initial

\* the final pass has replaced the initial offsets of a search whose loop
\* evaluated an iterate within max_width and did not accept it
C29_Witness ==
    \E search \in Searched :
        /\ search.pointwise
        /\ <<search.best_lower, search.best_upper>> /= args.initial
        /\ \E i \in 1..Len(search.trace) :
              /\ ~search.trace[i].nan
              /\ search.trace[i].evaluated
              /\ WidthWithin(search.trace[i].m_after, args.max_width)

-----------------------------------------------------------------------------
(* run_pipeline: the columns of the frames from the file to calibration    *)

\* The columns of a frame are pairs <<name, dtype>>, one for each name.
Names(columns) == {column[1] : column \in columns}

\* df[names]
Selected(columns, names) == {column \in columns : column[1] \in names}

\* self.target_column
target_column == "GHI - W/m^2"

\* the columns that make the timestamp of a row (load_data)
DateColumns == {<<"Date", "object">>, <<"Start Period", "object">>}

\* what pd.read_csv makes of a 'datetime' column of the file: strings or
\* numbers, never timestamps (no parse_dates)
CsvDatetimeColumns == {{}, {<<"datetime", "object">>}, {<<"datetime", "int64">>}}

\* other columns a file may have
CsvOtherColumns == {<<"Temperature", "float64">>, <<"Station", "object">>}

\* the files handed to run_pipeline, as pd.read_csv loads them
CsvFiles ==
    {{<<target_column, "float64">>} \cup dates \cup datetime \cup others :
        dates \in {{}, DateColumns}, datetime \in CsvDatetimeColumns,
        others \in SUBSET CsvOtherColumns}

\* load_data: data['datetime'] = pd.to_datetime(Date + ' ' + Start Period)
\* when the file has both columns
load_data(file) ==
    IF Names(DateColumns) \subseteq Names(file)
    THEN {column \in file : column[1] /= "datetime"} \cup {<<"datetime", "datetime64">>}
    ELSE file

\* the columns that add_solar_position_features, calculate_clear_sky_ghi
\* and create_features add to the data, the targets apart
EngineeredColumns ==
    {<<"hour", "int32">>, <<"is_daylight", "int64">>, <<"GHI_lag_1", "float64">>,
     <<"clear_sky_ghi", "float64">>, <<"ghi_change_pct", "float64">>}

\* the target_GHI_{h}h columns
TargetColumns == {<<target_columns[i], "float64">> : i \in 1..Len(target_columns)}

\* What the feature steps raise: df['datetime'].dt of a column that does
\* not hold timestamps raises AttributeError (add_solar_position_features),
\* df['datetime'] of a frame without the column KeyError
\* (add_trend_features).
FeaturesRaise(data) ==
    IF "datetime" \notin Names(data) THEN "KeyError"
    ELSE IF <<"datetime", "datetime64">> \notin data THEN "AttributeError"
    ELSE None

\* the columns of featured_data
FeaturedColumns(data) == data \cup EngineeredColumns \cup TargetColumns

\* split_time_series_data: X = data.drop([target_column] + target_columns)
FeatureFrameColumns(featured) ==
    {column \in featured : column[1] \notin {target_column} \cup Names(TargetColumns)}

\* the dtypes of np.number
NumberDtypes == {"float64", "int64", "int32"}

\* X_train.select_dtypes(include=np.number).columns
NumericCols(columns) == Names({column \in columns : column[2] \in NumberDtypes})

\* a scale_features that scales what it can and hands back the other
\* columns as they are
ScaledKeepingColumns(X_train, X) == X

\* scale_features: the columns of a scaled frame.  When X_train has a
\* column that is not numeric, every frame is cut to the numeric columns of
\* X_train before it is scaled; the scaled frame has the columns of the
\* frame that was scaled, all of them float64.
ScaledColumns(X_train, X) ==
    LET numeric_cols == NumericCols(X_train)
        kept == IF Names(X_train) \ numeric_cols /= {} THEN Selected(X, numeric_cols) ELSE X
    IN  {<<column[1], "float64">> : column \in kept}

\* metadata_cols of calibrate_prediction_intervals
metadata_cols == {"Date", "datetime", "Start Period", "End Period"}

\* timestamps of calibrate_prediction_intervals: X_val['datetime'] when
\* the frame has the column (its hours; <<>> stands for None)
CalibrationTimestamps(X_val, hours) == IF "datetime" \in Names(X_val) THEN hours ELSE <<>>

\* the validation rows of a run: feature vectors, the hours of their
\* timestamps and the targets
PipelineFrames == {FrameTimed, [FrameTimed EXCEPT !.hours = <<9, 10, 14, 15>>]}

\* The horizon loop of calibrate_prediction_intervals(X_val, y_val,
\* target_coverage=0.90, max_interval_width) on the rows of a frame, with
\* and without their timestamps: computed once for each frame and width
PipelineCalibrations ==
    [frame \in PipelineFrames, timed \in BOOLEAN, max_interval_width \in MaxWidths |->
        [h \in Horizons |->
            CalibrateHorizon(ModelPredict(FittedRegressors[h], frame.X), frame.y[h],
                             IF timed THEN frame.hours ELSE <<>>, 90,
                             max_interval_width, "zero", NoFailure)]]

\* calibrate_prediction_intervals(X_val_scaled, y_val, target_coverage=0.90,
\* max_interval_width=max_interval_width) inside run_pipeline, after
\* self.feature_columns = X_train.columns and train_models: X_val[feature_cols]
\* raises KeyError when a feature column is not in the scaled frame
PipelineCalibration(feature_cols, X_val_scaled, frame, max_interval_width) ==
    LET timestamps == CalibrationTimestamps(X_val_scaled, frame.hours)
        key_error == (feature_cols \ metadata_cols) \ Names(X_val_scaled) /= {}
    IN  [raised |-> IF key_error THEN "KeyError" ELSE None,
         timestamps |-> timestamps,
         horizons |-> IF key_error THEN EmptyMap
                      ELSE PipelineCalibrations[frame, "datetime" \in Names(X_val_scaled),
                                                max_interval_width]]

\* run_pipeline(file_path, max_interval_width): load_data, the feature
\* steps, split_time_series_data, self.feature_columns = X_train.columns,
\* scale_features, optimize_model_parameters and train_models on the scaled
\* frames, calibrate_prediction_intervals on the scaled validation frame;
\* the evaluations that follow leave the forecaster as it is.  A step that
\* raises ends the run.
run_pipeline(file, frame, max_interval_width) ==
    LET data == load_data(file)
        X_val == FeatureFrameColumns(FeaturedColumns(data))
        X_val_scaled == ScaledColumns(X_val, X_val)
    IN  IF FeaturesRaise(data) /= None
        THEN [raised |-> FeaturesRaise(data), trained |-> FALSE, calibrating |-> FALSE]
        ELSE With(PipelineCalibration(Names(X_val), X_val_scaled, frame, max_interval_width),
                  LAMBDA calibration :
                     [raised |-> calibration.raised, trained |-> TRUE, calibrating |-> TRUE,
                      X_val |-> X_val, X_val_scaled |-> X_val_scaled,
                      timestamps |-> calibration.timestamps,
                      horizons |-> calibration.horizons])

\* what a run leaves in one of the dictionaries of the calibration: reset
\* and filled by calibrate_prediction_intervals if the run reached it
PipelineStored(entries, run, values) ==
    IF ~run.calibrating THEN entries
    ELSE StoreHorizons(DiscardedEntries(entries),
                       [h \in DOMAIN run.horizons |-> values[h]])

RunPipeline(file, frame, max_interval_width) ==
    /\ pc = "idle"
    /\ pc' = "returned"
    /\ op' = "run_pipeline"
    /\ args' = [file |-> file, frame |-> frame, max_interval_width |-> max_interval_width]
    /\ out' = run_pipeline(file, frame, max_interval_width)
    /\ feature_columns' = IF out'.trained THEN FeatureColumns ELSE feature_columns
    /\ models_median' = IF out'.trained THEN FittedRegressors ELSE models_median
    /\ error_percentiles' =
          PipelineStored(error_percentiles, out',
                         [h \in DOMAIN out'.horizons |-> <<out'.horizons[h].lower_percentile,
                                                           out'.horizons[h].upper_percentile>>])
    /\ interval_widths' =
          PipelineStored(interval_widths, out',
                         [h \in DOMAIN out'.horizons |-> out'.horizons[h].avg_width])
    /\ max_interval_widths' =
          PipelineStored(max_interval_widths, out',
                         [h \in DOMAIN out'.horizons |-> out'.horizons[h].max_width])
    /\ UNCHANGED earlier

InitPipeline == Constructed

NextPipeline ==
    \/ \E file \in CsvFiles, frame \in PipelineFrames, max_interval_width \in MaxWidths :
          RunPipeline(file, frame, max_interval_width)
    \/ Return

SpecPipeline == InitPipeline /\ [][NextPipeline]_vars

-----------------------------------------------------------------------------
(* Properties of the calibration inside run_pipeline                       *)

\* run_pipeline has returned or raised after it reached the calibration
PipelineCalibrated == pc = "returned" /\ op = "run_pipeline" /\ out.calibrating

\* C30: in run_pipeline the validation frame handed to
\* calibrate_prediction_intervals never has a 'datetime' column, because
\* scale_features keeps numeric columns only; the calibration runs with
\* timestamps = None and the peak-solar branches of optimize_interval_width
\* (asymmetric shrink, peak-width rejection, final pointwise pass) are never
\* executed.
C30_PipelineWithoutTimestamps ==
    PipelineCalibrated =>
        /\ "datetime" \notin Names(out.X_val_scaled)
        /\ \A column \in out.X_val_scaled : column[1] \in NumericCols(out.X_val)
        /\ out.timestamps = <<>>
        /\ \A h \in DOMAIN out.horizons :
              LET search == out.horizons[h].search
              IN  /\ ~search.have_peak_data
                  /\ ~search.pointwise
                  /\ \A i \in 1..Len(search.shrunk) : ~search.shrunk[i].asymmetric

\* a run whose validation frame had a 'datetime' column with rows at peak
\* hours before it was scaled, and whose calibration shrank the offsets of a
\* horizon
C30_Witness ==
    /\ PipelineCalibrated
    /\ <<"datetime", "datetime64">> \in out.X_val
    /\ PeakSolarTimes(args.frame.hours) /= {}
    /\ \E h \in DOMAIN out.horizons : Len(out.horizons[h].search.shrunk) > 0

====
